---- MODULE Spec2Model ----
(***************************************************************************)
(* Binding requirement evaluation of bomcheck (ExcelProcessor).            *)
(*                                                                         *)
(* The model follows src/bomcheck_app/excel_processor.py: the project loop *)
(* of _evaluate_binding_requirements, _evaluate_group with its filter,     *)
(* sort and allocation loops, _choice_condition_met, and the loading of a  *)
(* group's number by BindingGroup.from_dict.  Quantities are integers;     *)
(* texts (part numbers, condition modes) are sequences of one-character    *)
(* strings so that normalisation is computed, not assumed.                 *)
(***************************************************************************)
EXTENDS Integers, Sequences, FiniteSets, TLC

(***************************************************************************)
(* Bounds of the model.                                                    *)
(***************************************************************************)
MaxQty == 2
MaxProjects == 2
MaxGroups == 2
MaxChoices == 2
MaxKeywords == 2

(***************************************************************************)
(* Texts.                                                                  *)
(***************************************************************************)
Whitespace == {" "}

Upper(c) ==
    CASE c = "a" -> "A"
      [] c = "b" -> "B"
      [] c = "c" -> "C"
      [] c = "l" -> "L"
      [] c = "n" -> "N"
      [] c = "y" -> "Y"
      [] c = "d" -> "D"
      [] c = "u" -> "U"
      [] c = "x" -> "X"
      [] OTHER -> c

RECURSIVE str_upper(_)
str_upper(s) ==
    IF s = <<>> THEN <<>> ELSE <<Upper(Head(s))>> \o str_upper(Tail(s))

\* only the first whitespace character is removed
remove_one_whitespace(s) ==
    IF \E i \in 1..Len(s) : s[i] \in Whitespace
    THEN LET i == CHOOSE j \in 1..Len(s) :
                     s[j] \in Whitespace /\ \A k \in 1..(j - 1) : s[k] \notin Whitespace
         IN SubSeq(s, 1, i - 1) \o SubSeq(s, i + 1, Len(s))
    ELSE s

RECURSIVE str_remove_whitespace(_)
str_remove_whitespace(s) ==
    IF s = <<>> THEN <<>>
    ELSE IF Head(s) \in Whitespace THEN str_remove_whitespace(Tail(s))
    ELSE <<Head(s)>> \o str_remove_whitespace(Tail(s))

\* "".join(str(value).strip().upper().split())
normalize_part_no(value) == str_remove_whitespace(str_upper(value))

Lower(c) ==
    CASE c = "A" -> "a"
      [] c = "B" -> "b"
      [] c = "C" -> "c"
      [] c = "D" -> "d"
      [] c = "N" -> "n"
      [] c = "Q" -> "q"
      [] c = "T" -> "t"
      [] c = "U" -> "u"
      [] c = "X" -> "x"
      [] c = "Y" -> "y"
      [] OTHER -> c

RECURSIVE str_lower(_)
str_lower(s) ==
    IF s = <<>> THEN <<>> ELSE <<Lower(Head(s))>> \o str_lower(Tail(s))

RECURSIVE str_strip(_)
str_strip(s) ==
    IF s = <<>> THEN <<>>
    ELSE IF Head(s) \in Whitespace THEN str_strip(Tail(s))
    ELSE IF s[Len(s)] \in Whitespace THEN str_strip(SubSeq(s, 1, Len(s) - 1))
    ELSE s

\* a in b, for two texts
IsSubstring(a, b) ==
    \E i \in 0..(Len(b) - Len(a)) : SubSeq(b, i + 1, i + Len(a)) = a

\* text_utils: str(value).strip().lower()
_prepare_value(value) == str_lower(str_strip(value))

VARIABLE opencc             \* text_utils: whether the OpenCC converters are there

\* one character pair the converters know: 號 (traditional) and 号 (simplified);
\* they leave ASCII text as it is
HaoTraditional == "hao_t"
HaoSimplified == "hao_s"
MODES == <<"t2s", "s2t">>

ConvertChar(mode, c) ==
    IF mode = "t2s" /\ c = HaoTraditional THEN HaoSimplified
    ELSE IF mode = "s2t" /\ c = HaoSimplified THEN HaoTraditional
    ELSE c

\* converter.convert(text)
RECURSIVE convert(_, _)
convert(mode, text) ==
    IF text = <<>> THEN <<>>
    ELSE <<ConvertChar(mode, Head(text))>> \o convert(mode, Tail(text))

\* text_utils.normalize_text: the base text, converted to simplified when the
\* converter is there and gives a non-empty text
normalize_text(value) ==
    LET base == _prepare_value(value)
    IN IF opencc /\ convert("t2s", base) # <<>>
       THEN str_lower(str_strip(convert("t2s", base)))
       ELSE base

\* text_utils.normalized_variants: the base text and its conversions, none empty
normalized_variants(value) ==
    LET base == _prepare_value(value)
        converted == IF opencc
                     THEN {_prepare_value(convert(MODES[i], base)) : i \in 1..Len(MODES)}
                     ELSE {}
    IN {v \in {base} \cup converted : v # <<>>}

\* dict.get(key, default)
DictGet(d, k, default) == IF k \in DOMAIN d THEN d[k] ELSE default

\* d[key] = value on a dict
DictPut(d, k, v) == [x \in (DOMAIN d) \cup {k} |-> IF x = k THEN v ELSE d[x]]

Min(a, b) == IF a <= b THEN a ELSE b
Max(a, b) == IF a >= b THEN a ELSE b

(***************************************************************************)
(* Inputs: aggregated quantities and the binding library.                  *)
(***************************************************************************)
KeyA == <<"A">>
KeyB == <<"B">>
KeyC == <<"C">>
EmptyText == <<>>

QtyRange == (0 - 1)..MaxQty

\* part_quantities as the aggregator leaves it: A is in the BOM, C may be absent
\* from it, and the rows of B may add up to nothing or to a negative quantity
AggregatedInputs ==
    {q \in [{KeyA, KeyB, KeyC} -> QtyRange] \cup [{KeyA, KeyB} -> QtyRange] :
        /\ q[KeyA] > 0
        /\ KeyC \in DOMAIN q => q[KeyC] > 0}

\* first-seen spelling of each aggregated part in the worksheet
DisplayOf(k) == IF k = KeyB THEN <<"b", " ">> ELSE k

\* first non-empty description seen for a part in the worksheet
DescribedKeys == {KeyB}
DescOf(k) == <<"d">> \o k

ModeNone == EmptyText
ModeALL == <<"A", "L", "L">>
ModeANY == <<"A", "N", "Y">>
ModeNOTANY == <<"N", "O", "T", "A", "N", "Y">>

\* the declared "number" of a group in the library file
NoNumber == [tag |-> "absent", val |-> 0]
BadNumber == [tag |-> "text", val |-> 0]
Num(n) == [tag |-> "num", val |-> n]
NoFloat == [tag |-> "none", val |-> 0]

\* _parse_number: float(value), None when absent, empty or unparsable
_parse_number(value) == IF value.tag = "num" THEN value ELSE NoFloat

\* Python truthiness of an Optional[float]
Truthy(x) == x.tag = "num" /\ x.val # 0

\* BindingGroup.from_dict: number = _parse_number(data.get("number", 1)) or 1.0
from_dict_number(declared) ==
    LET parsed == _parse_number(IF declared.tag = "absent" THEN Num(1) ELSE declared)
    IN IF Truthy(parsed) THEN parsed ELSE Num(1)

Choice(p, d, m, c) ==
    [part_no |-> p, desc |-> d, condition_mode |-> m, condition_part_nos |-> c]

Group(name, declared, cs) ==
    [group_name |-> name, declared |-> declared,
     number |-> from_dict_number(declared), choices |-> cs]

Project(desc, index) == [project_desc |-> desc, index_part_no |-> index]

NoProject == Project(EmptyText, EmptyText)
NoGroup == Group(EmptyText, NoNumber, <<>>)

(***************************************************************************)
(* _choice_condition_met                                                   *)
(***************************************************************************)
RECURSIVE condition_keys(_)
condition_keys(part_nos) ==
    IF part_nos = <<>> THEN <<>>
    ELSE IF Head(part_nos) = EmptyText THEN condition_keys(Tail(part_nos))
    ELSE <<normalize_part_no(Head(part_nos))>> \o condition_keys(Tail(part_nos))

_has_part(quantities, part_no) == DictGet(quantities, part_no, 0) > 0

_choice_condition_met(choice, quantities) ==
    LET mode == str_upper(choice.condition_mode)
        keys == condition_keys(choice.condition_part_nos)
        K == {keys[i] : i \in 1..Len(keys)}
    IN IF mode = EmptyText THEN TRUE
       ELSE IF keys = <<>> THEN FALSE
       ELSE IF mode = ModeALL THEN \A k \in K : _has_part(quantities, k)
       ELSE IF mode = ModeANY THEN \E k \in K : _has_part(quantities, k)
       ELSE IF mode = ModeNOTANY THEN ~ \E k \in K : _has_part(quantities, k)
       ELSE TRUE

(***************************************************************************)
(* _evaluate_group: requirement, filter loop and sort                      *)
(***************************************************************************)
\* base_requirement: group.number, 1.0 when None, "" or not a float
base_requirement(number) == IF number.tag = "num" THEN number.val ELSE 1

compute_required_qty(project_qty, number) == project_qty * base_requirement(number)

\* stock = max(available_inventory.get(choice_key, 0.0), 0.0)
current_stock_of(inventory, choice_key) == Max(DictGet(inventory, choice_key, 0), 0)

\* a condition judged on what is left in the pool
condition_on_pool(reference_quantities, inventory) == inventory

\* the quantities a choice's condition is judged on: reference_quantities
condition_quantities(reference_quantities, inventory) == reference_quantities

\* the filter loop: (idx, choice, choice_key, stock) of every applicable choice
RECURSIVE filter_choices(_, _, _, _)
filter_choices(choices, idx, reference_quantities, inventory) ==
    IF idx > Len(choices) THEN <<>>
    ELSE LET choice == choices[idx]
             rest == filter_choices(choices, idx + 1, reference_quantities, inventory)
         IN IF choice.part_no = EmptyText THEN rest
            ELSE IF ~ _choice_condition_met(
                        choice, condition_quantities(reference_quantities, inventory))
            THEN rest
            ELSE <<[idx |-> idx, choice |-> choice,
                    choice_key |-> normalize_part_no(choice.part_no),
                    stock |-> current_stock_of(
                                  inventory, normalize_part_no(choice.part_no))]>>
                 \o rest

\* available_qty: total aggregated stock of the applicable choices
RECURSIVE sum_total_stock(_, _)
sum_total_stock(applicable, reference_quantities) ==
    IF applicable = <<>> THEN 0
    ELSE LET total_stock == DictGet(reference_quantities, Head(applicable).choice_key, 0)
         IN (IF total_stock > 0 THEN total_stock ELSE 0)
            + sum_total_stock(Tail(applicable), reference_quantities)

\* a sort that keeps the declaration order
sort_by_declaration(a, b) == a.idx < b.idx

\* the sort key (-stock, idx)
sort_before(a, b) == a.stock > b.stock \/ (a.stock = b.stock /\ a.idx < b.idx)

RECURSIVE sort_insert(_, _)
sort_insert(sorted, item) ==
    IF sorted = <<>> THEN <<item>>
    ELSE IF sort_before(item, Head(sorted)) THEN <<item>> \o sorted
    ELSE <<Head(sorted)>> \o sort_insert(Tail(sorted), item)

RECURSIVE sort_choices(_)
sort_choices(applicable) ==
    IF applicable = <<>> THEN <<>>
    ELSE sort_insert(sort_choices(Tail(applicable)), Head(applicable))

(***************************************************************************)
(* _evaluate_group: allocation loop and result                             *)
(***************************************************************************)
remaining_need_of(required, fulfilled) == Max(required - fulfilled, 0)

\* a take that empties the choice whatever is still needed
take_whole_stock(current_stock, remaining_need) == current_stock

\* a take that forgets the stock of the choice
take_amount_unbounded(current_stock, remaining_need) == remaining_need

take_amount_of(current_stock, remaining_need) == Min(current_stock, remaining_need)

\* a pool that is never written back
deplete_nothing(stock, amount) == stock

\* a pool that grows by what is taken
restock(stock, amount) == stock + amount

\* available_inventory[key] = max(stock - amount, 0.0)
deplete(stock, amount) == Max(stock - amount, 0)

\* matched_details[display_no] = matched_details.get(display_no, 0.0) + take_amount
RECURSIVE matched_add(_, _, _)
matched_add(details, display_no, amount) ==
    IF details = <<>> THEN <<[part_no |-> display_no, qty |-> amount]>>
    ELSE IF Head(details).part_no = display_no
    THEN <<[part_no |-> display_no, qty |-> Head(details).qty + amount]>> \o Tail(details)
    ELSE <<Head(details)>> \o matched_add(Tail(details), display_no, amount)

\* a shortfall that is not clamped at zero
missing_qty_unclamped(required, fulfilled) == required - fulfilled

compute_missing_qty(required, fulfilled) == Max(required - fulfilled, 0)

RECURSIVE non_empty_part_nos(_)
non_empty_part_nos(choices) ==
    IF choices = <<>> THEN <<>>
    ELSE IF Head(choices).part_no = EmptyText THEN non_empty_part_nos(Tail(choices))
    ELSE <<Head(choices).part_no>> \o non_empty_part_nos(Tail(choices))

compute_missing_choices(missing, first_part, fallback, choices) ==
    IF missing > 0
    THEN IF first_part # EmptyText THEN <<first_part>>
         ELSE IF fallback # <<>> THEN <<fallback[1]>>
         ELSE non_empty_part_nos(choices)
    ELSE <<>>

GroupResult(name, required, available, missing, missing_cs, matched) ==
    [group_name |-> name, required_qty |-> required, available_qty |-> available,
     missing_qty |-> missing, missing_choices |-> missing_cs, matched_details |-> matched]

\* the result returned when no choice of the group is applicable
disabled_result(g, required) == GroupResult(g.group_name, 0, 0, 0, <<>>, <<>>)

(***************************************************************************)
(* _evaluate_binding_requirements: what follows each group result          *)
(***************************************************************************)
RECURSIVE _lookup_choice_desc(_, _)
_lookup_choice_desc(choices, part_no) ==
    IF choices = <<>> THEN EmptyText
    ELSE IF Head(choices).part_no = part_no /\ Head(choices).desc # EmptyText
    THEN Head(choices).desc
    ELSE _lookup_choice_desc(Tail(choices), part_no)

\* a missing item added for every shortfall, never merged
missing_add_unmerged(items, part_key, display_no, description, qty) ==
    Append(items, [key |-> part_key, part_no |-> display_no, desc |-> description,
                   missing_qty |-> qty])

\* missing_items.setdefault(part_key, MissingItem(...)); desc; missing_qty += qty
RECURSIVE missing_add(_, _, _, _, _)
missing_add(items, part_key, display_no, description, qty) ==
    IF items = <<>>
    THEN <<[key |-> part_key, part_no |-> display_no, desc |-> description,
            missing_qty |-> qty]>>
    ELSE IF Head(items).key = part_key
    THEN <<[Head(items) EXCEPT
              !.desc = IF @ = EmptyText THEN description ELSE @,
              !.missing_qty = @ + qty]>> \o Tail(items)
    ELSE <<Head(items)>> \o missing_add(Tail(items), part_key, display_no, description, qty)

RECURSIVE merge_missing(_, _, _, _, _, _)
merge_missing(items, g, missing_cs, qty, descs, displays) ==
    IF missing_cs = <<>> THEN items
    ELSE LET part_no == Head(missing_cs)
             part_key == normalize_part_no(part_no)
             from_bom == DictGet(descs, part_key, EmptyText)
             description == IF from_bom # EmptyText THEN from_bom
                            ELSE _lookup_choice_desc(g.choices, part_no)
             display_no == DictGet(displays, part_key, part_no)
         IN merge_missing(
                missing_add(items, part_key, display_no, description, qty),
                g, Tail(missing_cs), qty, descs, displays)

record_missing(items, g, result, descs, displays) ==
    IF result.missing_qty > 0
    THEN merge_missing(items, g, result.missing_choices, result.missing_qty, descs, displays)
    ELSE items

matched_keys(result) ==
    {normalize_part_no(result.matched_details[i].part_no) :
        i \in 1..Len(result.matched_details)}

ProjectResult(project, qty, groups) ==
    [project_desc |-> project.project_desc, index_part_no |-> project.index_part_no,
     matched_quantity |-> qty, requirement_results |-> groups]

\* a result inserted at the front
prepend_result(list, result) == <<result>> \o list

\* results.append(...), group_results.append(...)
append_result(list, result) == Append(list, result)

\* a skip that looks at the aggregated quantity only
skip_without_pool(project_qty, available_index_qty) == project_qty <= 0

\* the project is skipped: no aggregated quantity, or nothing left in the pool
skip_project(project_qty, available_index_qty) ==
    project_qty <= 0 \/ available_index_qty <= 0

\* a consumption of the whole aggregated quantity
consume_whole_demand(project_qty, available_index_qty) == project_qty

compute_consumption_qty(project_qty, available_index_qty) ==
    Min(project_qty, available_index_qty)

(***************************************************************************)
(* _scan_important_materials and the remainder of execute                  *)
(***************************************************************************)
NoFile == [exists |-> FALSE, lines |-> <<>>]
FileOf(file_lines) == [exists |-> TRUE, lines |-> file_lines]

\* keywords = [line.strip() for line in ... if line.strip()]
RECURSIVE read_keywords(_)
read_keywords(file_lines) ==
    IF file_lines = <<>> THEN <<>>
    ELSE IF str_strip(Head(file_lines)) = <<>> THEN read_keywords(Tail(file_lines))
    ELSE <<str_strip(Head(file_lines))>> \o read_keywords(Tail(file_lines))

keyword_variants_of(keyword) ==
    normalized_variants(keyword)
        \cup (IF normalize_text(keyword) # <<>> THEN {normalize_text(keyword)} ELSE {})

_collect_part_variants(display_no, part_no, description) ==
    normalized_variants(display_no) \cup normalized_variants(part_no)
        \cup (IF description # EmptyText THEN normalized_variants(description) ELSE {})

\* only a keyword contained in a value counts
keyword_within_value(keyword_variants, value_variants) ==
    \E keyword_variant \in keyword_variants, value_variant \in value_variants :
        IsSubstring(keyword_variant, value_variant)

_variants_match(keyword_variants, value_variants) ==
    /\ keyword_variants # {}
    /\ value_variants # {}
    /\ \E keyword_variant \in keyword_variants, value_variant \in value_variants :
          /\ keyword_variant # <<>>
          /\ value_variant # <<>>
          /\ \/ IsSubstring(keyword_variant, value_variant)
             \/ IsSubstring(value_variant, keyword_variant)

\* the part keys a keyword matches
keyword_matches(keyword, quantities, displays, descs) ==
    {part_no \in DOMAIN quantities :
        _variants_match(
            keyword_variants_of(keyword),
            _collect_part_variants(DictGet(displays, part_no, part_no), part_no,
                                   DictGet(descs, part_no, EmptyText)))}

RECURSIVE sum_quantities(_, _)
sum_quantities(keys, quantities) ==
    IF keys = {} THEN 0
    ELSE LET k == CHOOSE x \in keys : TRUE
         IN quantities[k] + sum_quantities(keys \ {k}, quantities)

\* matched_detail: display text -> quantity
matched_detail_of(keys, quantities, displays) ==
    [display_no \in {DictGet(displays, k, k) : k \in keys} |->
        sum_quantities({k \in keys : DictGet(displays, k, k) = display_no}, quantities)]

ImportantHit(keyword, quantities, displays, descs) ==
    LET keys == keyword_matches(keyword, quantities, displays, descs)
    IN [keyword |-> keyword,
        converted_keyword |-> normalize_text(keyword),
        total_quantity |-> sum_quantities(keys, quantities),
        matched_parts |-> matched_detail_of(keys, quantities, displays)]

\* hits: one per keyword whose total quantity is not zero, in keyword order
RECURSIVE scan_hits(_, _, _, _)
scan_hits(keywords, quantities, displays, descs) ==
    IF keywords = <<>> THEN <<>>
    ELSE LET hit == ImportantHit(Head(keywords), quantities, displays, descs)
         IN (IF hit.total_quantity # 0 THEN <<hit>> ELSE <<>>)
            \o scan_hits(Tail(keywords), quantities, displays, descs)

\* matched_parts: every part key some keyword matches
scan_matched_parts(keywords, quantities, displays, descs) ==
    UNION {keyword_matches(keywords[i], quantities, displays, descs) :
              i \in 1..Len(keywords)}

\* a pool kept from the invocation before
reused_pool(quantities, left_over) == left_over

\* available_inventory = defaultdict(float, part_quantities): a pool of its own for
\* every invocation, whatever an earlier one left
new_pool(quantities, left_over) == quantities

\* a remainder that forgets the important parts
remainder_without_important(keys, used, important) == keys \ used

\* remainder_keys = (set(part_quantities.keys()) - used_part_numbers) | important_part_numbers
compute_remainder_keys(keys, used, important) == (keys \ used) \cup important

(***************************************************************************)
(* The binding library the evaluator iterates over.  A project and a group *)
(* are read when the loop reaches them; their names carry their position.  *)
(***************************************************************************)
Digits == <<"1", "2", "3", "4", "5", "6", "7", "8", "9">>
NameOf(letter, n) == <<letter, Digits[n]>>

IndexPartNos == {KeyA, <<"b", " ">>}

DeclaredNumbers == {NoNumber, Num(2), Num(0 - 1)}

ChoiceDescOf(p) == IF p = KeyC THEN <<"c", "d">> ELSE EmptyText
InertChoice == Choice(EmptyText, EmptyText, ModeNone, <<>>)
Unconditional == <<ModeNone, <<>>>>

\* the conditions a choice for B may carry
Conditions == {Unconditional, <<ModeALL, <<KeyC>>>>}

ChoicesOver(conditions) ==
    {Choice(KeyB, ChoiceDescOf(KeyB), c[1], c[2]) : c \in conditions}
        \cup {Choice(KeyC, ChoiceDescOf(KeyC), Unconditional[1], Unconditional[2]),
               InertChoice}

\* what a group declares, apart from its name
GroupShapesOver(conditions) ==
    {[declared |-> d, choices |-> cs] :
        d \in DeclaredNumbers,
        cs \in UNION {[1..n -> ChoicesOver(conditions)] : n \in 0..MaxChoices}}

GroupShapes == GroupShapesOver(Conditions)

(***************************************************************************)
(* Worksheet cells and rows                                                *)
(***************************************************************************)
\* a cell value: None, a text or a number
NoValue == [kind |-> "none", text |-> <<>>, num |-> 0]
TextValue(t) == [kind |-> "text", text |-> t, num |-> 0]
NumValue(n) == [kind |-> "num", text |-> <<>>, num |-> n]

Cell(v, b) == [value |-> v, black |-> b]
EmptyCell == Cell(NoValue, FALSE)

\* _is_black_fill
_is_black_fill(cell) == cell.black

\* value in (None, "")
IsBlank(v) == v.kind = "none" \/ (v.kind = "text" /\ v.text = <<>>)

\* not value: None, "" and 0 are false
IsFalsy(v) == IsBlank(v) \/ (v.kind = "num" /\ v.num = 0)

AlphaChars == {"A", "B", "C", "D", "L", "N", "U", "X", "Y"}
DigitChars == {"0", "1", "2", "3", "4", "5", "6", "7", "8", "9"}
PunctChars == {".", "_", "/", "-"}

\* _PART_NO_PATTERN.fullmatch(normalized), with a digit and a letter in it
_is_probable_part_number(value) ==
    LET normalized == normalize_part_no(value)
    IN /\ normalized # <<>>
       /\ normalized[1] \in AlphaChars \cup DigitChars
       /\ \A i \in 1..Len(normalized) :
             normalized[i] \in AlphaChars \cup DigitChars \cup PunctChars
       /\ \E i \in 1..Len(normalized) : normalized[i] \in DigitChars
       /\ \E i \in 1..Len(normalized) : normalized[i] \in AlphaChars

\* _row_has_non_black_value: some other cell holds a value and is not black
_row_has_non_black_value(row, ignore_idx) ==
    \E idx \in 1..Len(row) :
        idx # ignore_idx /\ ~ IsBlank(row[idx].value) /\ ~ _is_black_fill(row[idx])

\* _row_contains_part: some other cell holds part_no, up to normalization.  The
\* text of a number is made of digits, and no part number of the directory is.
_row_contains_part(row, ignore_idx, part_no) ==
    /\ part_no # EmptyText
    /\ \E idx \in 1..Len(row) :
          /\ idx # ignore_idx
          /\ row[idx].value.kind = "text"
          /\ row[idx].value.text # <<>>
          /\ normalize_part_no(row[idx].value.text) = normalize_part_no(part_no)

\* a classification that takes every blackened row for processed
already_replaced_when_black(row, part_col_idx, replacement_no) ==
    \/ replacement_no # EmptyText /\ _row_contains_part(row, part_col_idx, replacement_no)
    \/ _is_black_fill(row[part_col_idx])

\* _row_already_replaced; replacement_no is EmptyText for None
_row_already_replaced(row, part_col_idx, replacement_no) ==
    IF replacement_no # EmptyText /\ _row_contains_part(row, part_col_idx, replacement_no)
    THEN TRUE
    ELSE IF _is_black_fill(row[part_col_idx])
    THEN IF _row_has_non_black_value(row, part_col_idx) THEN TRUE
         ELSE replacement_no = EmptyText
    ELSE FALSE

NotResolved == [found |-> FALSE, key |-> <<>>, display |-> <<>>, desc |-> <<>>]
Resolved(k, display_no, override_desc) ==
    [found |-> TRUE, key |-> k, display |-> display_no, desc |-> override_desc]

\* the cells _find_replacement_in_row may return: a text that looks like a part
\* number, in a cell that is not the part cell and is not black
ReplacementCandidates(row, part_col_idx) ==
    {idx \in 1..Len(row) :
        /\ idx # part_col_idx
        /\ row[idx].value.kind = "text"
        /\ str_strip(row[idx].value.text) # <<>>
        /\ _is_probable_part_number(str_strip(row[idx].value.text))
        /\ ~ _is_black_fill(row[idx])}

\* _find_replacement_in_row: the first of them, with the text of the next cell
_find_replacement_in_row(row, part_col_idx) ==
    LET candidates == ReplacementCandidates(row, part_col_idx)
    IN IF candidates = {} THEN NotResolved
       ELSE LET idx == CHOOSE i \in candidates : \A j \in candidates : i <= j
                text == str_strip(row[idx].value.text)
                desc_value ==
                    IF idx + 1 <= Len(row) /\ row[idx + 1].value.kind = "text"
                    THEN str_strip(row[idx + 1].value.text) ELSE EmptyText
            IN Resolved(normalize_part_no(text), text, desc_value)

\* _resolve_row_part; the part cell holds a text or nothing
_resolve_row_part(row, part_col_idx) ==
    LET part_cell == row[part_col_idx]
        raw_value == part_cell.value
        text == IF raw_value.kind = "text" THEN str_strip(raw_value.text) ELSE EmptyText
        replacement == _find_replacement_in_row(row, part_col_idx)
    IN IF text # EmptyText /\ ~ _is_black_fill(part_cell) /\ _is_probable_part_number(text)
       THEN Resolved(normalize_part_no(text), text, EmptyText)
       ELSE IF replacement.found THEN replacement
       ELSE IF text # EmptyText /\ ~ _is_probable_part_number(text) THEN NotResolved
       ELSE IF _is_black_fill(part_cell) THEN NotResolved
       ELSE IF text # EmptyText THEN Resolved(normalize_part_no(text), text, EmptyText)
       ELSE NotResolved

(***************************************************************************)
(* Quantity parsing and column inference                                   *)
(***************************************************************************)
DigitText == <<"0", "1", "2", "3", "4", "5", "6", "7", "8", "9">>
DigitValue(c) == (CHOOSE d \in 1..10 : DigitText[d] = c) - 1

\* str(value) of a cell value; numbers of the model have at most two digits
StrOf(v) ==
    IF v.kind = "text" THEN v.text
    ELSE IF v.kind = "none" THEN <<"N", "o", "n", "e">>
    ELSE IF v.num < 10 THEN <<DigitText[v.num + 1]>>
    ELSE <<DigitText[(v.num \div 10) + 1], DigitText[(v.num % 10) + 1]>>

RECURSIVE DropCommas(_)
DropCommas(s) ==
    IF s = <<>> THEN <<>>
    ELSE IF Head(s) = "," THEN DropCommas(Tail(s))
    ELSE <<Head(s)>> \o DropCommas(Tail(s))

\* the value of the digits of s from position i on, after the value acc
RECURSIVE DigitRun(_, _, _)
DigitRun(s, i, acc) ==
    IF i > Len(s) \/ s[i] \notin DigitChars THEN acc
    ELSE DigitRun(s, i + 1, acc * 10 + DigitValue(s[i]))

NotParsed == [ok |-> FALSE, val |-> 0]
Parsed(n) == [ok |-> TRUE, val |-> n]

\* _parse_quantity_value: a number as it is, a text by its first numeric token
\* (the texts of the model hold no decimal point)
_parse_quantity_value(value) ==
    IF IsBlank(value) THEN NotParsed
    ELSE IF value.kind = "num" THEN Parsed(value.num)
    ELSE LET normalized == DropCommas(str_strip(value.text))
             digits == {i \in 1..Len(normalized) : normalized[i] \in DigitChars}
         IN IF digits = {} THEN NotParsed
            ELSE LET first == CHOOSE i \in digits : \A j \in digits : i <= j
                     magnitude == DigitRun(normalized, first, 0)
                 IN IF first > 1 /\ normalized[first - 1] = "-"
                    THEN Parsed(0 - magnitude) ELSE Parsed(magnitude)

\* no column: None
NoColumn == 0

\* a worksheet: the header row and the data rows, all of the same width
max_column(ws) == Len(ws.header)

ColumnTexts(ws, col) ==
    {r \in 1..Len(ws.rows) :
        ws.rows[r][col].value.kind # "none" /\ str_strip(StrOf(ws.rows[r][col].value)) # <<>>}

UCount(ws, col) ==
    Cardinality({r \in ColumnTexts(ws, col) :
        Upper(str_strip(StrOf(ws.rows[r][col].value))[1]) = "U"})

\* a part column that is the first column when no column holds a text
part_column_or_first(ws) ==
    LET candidates == {c \in 1..max_column(ws) : ColumnTexts(ws, c) # {}}
    IN IF candidates = {} THEN 1
       ELSE CHOOSE c \in candidates : \A d \in candidates :
                \/ UCount(ws, c) > UCount(ws, d)
                \/ UCount(ws, c) = UCount(ws, d) /\ c <= d

\* _identify_part_column: most texts starting with U, then most texts, then the
\* leftmost column (the sort is stable)
_identify_part_column(ws) ==
    LET candidates == {c \in 1..max_column(ws) : ColumnTexts(ws, c) # {}}
        Before(c, d) ==
            \/ UCount(ws, c) > UCount(ws, d)
            \/ /\ UCount(ws, c) = UCount(ws, d)
               /\ Cardinality(ColumnTexts(ws, c)) > Cardinality(ColumnTexts(ws, d))
            \/ /\ UCount(ws, c) = UCount(ws, d)
               /\ Cardinality(ColumnTexts(ws, c)) = Cardinality(ColumnTexts(ws, d))
               /\ c <= d
    IN IF candidates = {} THEN NoColumn
       ELSE CHOOSE c \in candidates : \A d \in candidates : Before(c, d)

QuantityKeywords == {<<"q", "t", "y">>, <<"q", "u", "a", "n", "t", "i", "t", "y">>}

\* the header cells past the first two columns that hold a quantity keyword
header_candidates(ws) ==
    {c \in 3..max_column(ws) :
        /\ ~ IsBlank(ws.header[c])
        /\ \E keyword \in QuantityKeywords :
              IsSubstring(keyword, str_lower(str_strip(StrOf(ws.header[c]))))}

NumericCount(ws, col) ==
    Cardinality({r \in 1..Len(ws.rows) :
        ~ IsBlank(ws.rows[r][col].value) /\ _parse_quantity_value(ws.rows[r][col].value).ok})

FailureCount(ws, col) ==
    Cardinality({r \in 1..Len(ws.rows) :
        ~ IsBlank(ws.rows[r][col].value) /\ ~ _parse_quantity_value(ws.rows[r][col].value).ok})

\* numeric_scores: the columns past the first two with a parsable value
numeric_scores(ws) == {c \in 3..max_column(ws) : NumericCount(ws, c) > 0}

\* _select_best; every parsed number of the model is an integer
_select_best(ws, scores) ==
    LET Before(c, d) ==
            \/ NumericCount(ws, c) > NumericCount(ws, d)
            \/ /\ NumericCount(ws, c) = NumericCount(ws, d)
               /\ FailureCount(ws, c) < FailureCount(ws, d)
            \/ /\ NumericCount(ws, c) = NumericCount(ws, d)
               /\ FailureCount(ws, c) = FailureCount(ws, d)
               /\ c <= d
    IN IF scores = {} THEN NoColumn
       ELSE CHOOSE c \in scores : \A d \in scores : Before(c, d)

\* _identify_quantity_column
_identify_quantity_column(ws) ==
    LET headers == header_candidates(ws)
    IN IF headers # {}
       THEN LET selected == _select_best(ws, numeric_scores(ws) \cap headers)
            IN IF selected # NoColumn THEN selected
               ELSE CHOOSE c \in headers : \A d \in headers : c <= d
       ELSE _select_best(ws, numeric_scores(ws))

DescriptionKeyword == <<"d", "e", "s", "c">>

\* _identify_description_column: a text with the keyword in the first five
\* rows, else the column after the part column
_identify_description_column(ws, part_col_idx) ==
    LET top == <<ws.header>> \o [r \in 1..Len(ws.rows) |-> [c \in 1..max_column(ws) |-> ws.rows[r][c].value]]
        hits == {rc \in (1..(IF Len(top) < 5 THEN Len(top) ELSE 5)) \X (1..max_column(ws)) :
                    /\ top[rc[1]][rc[2]].kind = "text"
                    /\ IsSubstring(DescriptionKeyword, str_lower(str_strip(top[rc[1]][rc[2]].text)))}
        first == CHOOSE rc \in hits : \A other \in hits :
                    rc[1] < other[1] \/ (rc[1] = other[1] /\ rc[2] <= other[2])
    IN IF hits # {} THEN first[2]
       ELSE IF part_col_idx # NoColumn /\ part_col_idx < max_column(ws) THEN part_col_idx + 1
       ELSE NoColumn

(***************************************************************************)
(* State                                                                   *)
(***************************************************************************)
VARIABLES
    part_quantities,        \* aggregated quantity per part key (reference_quantities)
    part_display,           \* display text per part key
    part_desc,              \* description per part key
    available_inventory,    \* the pool
    used_parts,             \* used_parts of _evaluate_binding_requirements
    missing_items,          \* missing_items, in insertion order
    results,                \* results: one BindingProjectResult per evaluated project
    pc,                     \* position of the evaluator
    nproj,                  \* number of projects the project loop has reached
    project,                \* the project the loop reached last
    consumption_qty,        \* consumption_qty of that project
    group_results,          \* group_results of the project under evaluation
    group,                  \* the group evaluated last in this project
    group_start_inventory,  \* the pool when _evaluate_group was entered
    required_qty,           \* locals of _evaluate_group
    available_qty,
    fulfilled_qty,
    matched_details,
    applicable_choices,     \* sorted; kept for inspection until the project is emitted
    first_applicable_part,
    ai,                     \* position of the allocation loop in applicable_choices
    important_hits,         \* execute: what _scan_important_materials returned
    important_part_numbers,
    remainder_keys,         \* execute: remainder_keys
    library,                \* the projects of a binding library given as a whole
    keyword_file,           \* the keyword file given with it
    run,                    \* which invocation of execute this is
    first_result,           \* what the first invocation returned
    worksheets,             \* the data worksheets: each a header row and data rows
    loaded_worksheets,      \* the worksheets as this invocation loaded them
    sheet_idx,              \* the worksheet the running loop has reached
    debug_logs,             \* the debug trace of the worksheet stages
    invalid_part_db,        \* the invalid-part directory file
    sheet_pc,               \* position of the worksheet stages
    row_idx,                \* the row the running loop has reached
    iter_width,             \* width of the row tuples of the running loop
    invalid_entries,        \* _apply_replacements: invalid_entries
    summary,                \* _apply_replacements: summary
    columns,                \* _extract_part_quantities: the columns it identified
    quantity_debug,         \* _extract_part_quantities: rows logged as unparsable
    error,                  \* the exception that ended the invocation, if any
    first_quantities,       \* part_quantities of the first invocation
    text_value,             \* a text handed to the text functions
    text_other,             \* a second text, matched against the first
    text_pc,                \* how far the text functions have been applied
    normalized_once,        \* normalize_part_no and normalize_text of text_value
    normalized_twice,       \* the same functions applied to their own results
    variants_matched,       \* _variants_match of the two texts, both ways round
    selected_file,          \* Application: whether a workbook has been chosen
    execution_lock,         \* Application._execution_lock: whether it is held
    execute_button,         \* state of the execute button
    execution_thread,       \* Application._execution_thread: a thread, or 0 for None
    threads,                \* the execution threads started so far
    after_queue,            \* callbacks handed to root.after(0, ...), not yet run
    last_dialog,            \* the message box _execute showed last
    libraries,              \* the BindingLibrary objects: each its projects list
    app_library,            \* Application.binding_library
    editor_library,         \* BindingEditor.binding_library, 0 while no editor is open
    editor_projects,        \* BindingEditor.projects
    binding_file            \* the projects in the binding library file

sheet_vars == <<worksheets, loaded_worksheets, sheet_idx, debug_logs, invalid_part_db, sheet_pc, row_idx, iter_width,
                invalid_entries, summary, columns, quantity_debug, error, first_quantities>>
text_vars == <<opencc, text_value, text_other, text_pc, normalized_once, normalized_twice,
               variants_matched>>
lock_vars == <<execution_lock, execute_button, execution_thread>>
library_vars == <<libraries, app_library, editor_library, editor_projects, binding_file>>
app_vars == <<selected_file, lock_vars, threads, after_queue, last_dialog,
              library_vars>>
\* what no invocation of execute touches
environment == <<keyword_file, text_vars, app_vars>>
\* what the evaluation reads and leaves as it is
inputs == <<part_quantities, part_display, part_desc, library, environment, sheet_vars>>
outputs == <<used_parts, missing_items, results>>
project_vars == <<nproj, project, consumption_qty, group_results>>
group_locals == <<required_qty, available_qty, fulfilled_qty, matched_details,
                  applicable_choices, first_applicable_part, ai>>
scan_vars == <<important_hits, important_part_numbers, remainder_keys>>
run_vars == <<run, first_result>>
vars == <<inputs, available_inventory, outputs, pc, project_vars, group,
          group_start_inventory, group_locals, scan_vars, run_vars>>

\* _evaluate_group has returned
NoLocals ==
    /\ required_qty' = 0
    /\ available_qty' = 0
    /\ fulfilled_qty' = 0
    /\ matched_details' = <<>>
    /\ first_applicable_part' = EmptyText
    /\ ai' = 1

NoResult == [binding_results |-> <<>>, important_hits |-> <<>>, missing_items |-> <<>>]

NoDirectory == [exists |-> FALSE, rows |-> <<>>]
\* ReplacementSummary()
NewSummary == [total_invalid_found |-> 0, total_replaced |-> 0, records |-> <<>>]
NoColumns == [qty |-> 0, part |-> 0, desc |-> 0]
NoError == ""

\* the worksheet stages before load_workbook, on the worksheets wss and the directory db
SheetStart(wss, db) ==
    /\ worksheets = wss
    /\ loaded_worksheets = wss
    /\ sheet_idx = 1
    /\ debug_logs = <<>>
    /\ invalid_part_db = db
    /\ row_idx = 1
    /\ iter_width = 0
    /\ invalid_entries = <<>>
    /\ summary = NewSummary
    /\ columns = NoColumns
    /\ quantity_debug = <<>>
    /\ error = NoError
    /\ first_quantities = <<>>

\* the text functions have been handed nothing
NoTexts ==
    /\ opencc = FALSE
    /\ text_value = <<>>
    /\ text_other = <<>>
    /\ text_pc = "idle"
    /\ normalized_once = [part_no |-> <<>>, text |-> <<>>]
    /\ normalized_twice = [part_no |-> <<>>, text |-> <<>>]
    /\ variants_matched = [forth |-> FALSE, back |-> FALSE]

\* Application.__init__ on a configuration whose library file holds file_projects
AppStart(file_projects) ==
    /\ selected_file = FALSE
    /\ execution_lock = FALSE
    /\ execute_button = "normal"
    /\ execution_thread = 0
    /\ threads = <<>>
    /\ after_queue = <<>>
    /\ last_dialog = ""
    /\ libraries = <<[alias |-> FALSE, value |-> file_projects]>>
    /\ app_library = 1
    /\ editor_library = 0
    /\ editor_projects = <<>>
    /\ binding_file = file_projects

\* execute: available_inventory = defaultdict(float, part_quantities)
InitRun(quantities, projects, file) ==
    /\ NoTexts
    /\ AppStart(<<>>)
    /\ SheetStart(<<>>, NoDirectory)
    /\ sheet_pc = "aggregated"
    /\ library = projects
    /\ keyword_file = file
    /\ run = 1
    /\ first_result = NoResult
    /\ part_quantities = quantities
    /\ part_display = [k \in DOMAIN quantities |-> DisplayOf(k)]
    /\ part_desc = [k \in (DOMAIN quantities) \cap DescribedKeys |-> DescOf(k)]
    /\ available_inventory = quantities
    /\ used_parts = {}
    /\ missing_items = <<>>
    /\ results = <<>>
    /\ pc = "project"
    /\ nproj = 0
    /\ project = NoProject
    /\ consumption_qty = 0
    /\ group_results = <<>>
    /\ group = NoGroup
    /\ group_start_inventory = quantities
    /\ required_qty = 0
    /\ available_qty = 0
    /\ fulfilled_qty = 0
    /\ matched_details = <<>>
    /\ applicable_choices = <<>>
    /\ first_applicable_part = EmptyText
    /\ ai = 1
    /\ important_hits = <<>>
    /\ important_part_numbers = {}
    /\ remainder_keys = {}

\* the library and the keyword file are read as the evaluation advances
InitWith(quantities) == InitRun(quantities, <<>>, NoFile)

Init == \E quantities \in AggregatedInputs : InitWith(quantities)

(***************************************************************************)
(* _evaluate_binding_requirements: the project loop                        *)
(***************************************************************************)
index_key_of(p) == normalize_part_no(p.index_part_no)

\* for project in ...: the project is skipped (continue)
SkipProject(p) ==
    /\ pc = "project"
    /\ skip_project(DictGet(part_quantities, index_key_of(p), 0),
                    DictGet(available_inventory, index_key_of(p), 0))
    /\ nproj' = nproj + 1
    /\ project' = p
    /\ UNCHANGED <<inputs, run_vars, scan_vars, available_inventory, outputs, pc, consumption_qty,
                   group_results, group, group_start_inventory, group_locals>>

\* for project in ...: the index part is consumed and marked used
BeginProject(p) ==
    LET index_key == index_key_of(p)
        project_qty == DictGet(part_quantities, index_key, 0)
        available_index_qty == DictGet(available_inventory, index_key, 0)
        qty == compute_consumption_qty(project_qty, available_index_qty)
    IN /\ pc = "project"
       /\ ~ skip_project(project_qty, available_index_qty)
       /\ nproj' = nproj + 1
       /\ project' = p
       /\ consumption_qty' = qty
       /\ available_inventory' =
              DictPut(available_inventory, index_key, deplete(available_index_qty, qty))
       /\ used_parts' = used_parts \cup {index_key}
       /\ group_results' = <<>>
       /\ group' = NoGroup
       /\ pc' = "group"
       /\ UNCHANGED <<inputs, run_vars, scan_vars, missing_items, results, group_start_inventory, group_locals>>

\* what the project loop does with the result of _evaluate_group
AfterGroup(g, result) ==
    /\ group_results' = append_result(group_results, result)
    /\ missing_items' = record_missing(missing_items, g, result, part_desc, part_display)
    /\ used_parts' = used_parts \cup matched_keys(result)

\* _evaluate_group returns early: no choice of the group is applicable
GroupNotEnabled(g) ==
    LET required == compute_required_qty(consumption_qty, g.number)
        applicable == filter_choices(g.choices, 1, part_quantities, available_inventory)
    IN /\ pc = "group"
       /\ applicable = <<>>
       /\ group' = g
       /\ group_start_inventory' = available_inventory
       /\ AfterGroup(g, disabled_result(g, required))
       /\ applicable_choices' = <<>>
       /\ NoLocals
       /\ UNCHANGED <<inputs, run_vars, scan_vars, available_inventory, results, pc, nproj, project,
                      consumption_qty>>

\* _evaluate_group up to the sort of the applicable choices
BeginGroup(g) ==
    LET required == compute_required_qty(consumption_qty, g.number)
        applicable == filter_choices(g.choices, 1, part_quantities, available_inventory)
    IN /\ pc = "group"
       /\ applicable # <<>>
       /\ group' = g
       /\ group_start_inventory' = available_inventory
       /\ required_qty' = required
       /\ available_qty' = sum_total_stock(applicable, part_quantities)
       /\ fulfilled_qty' = 0
       /\ matched_details' = <<>>
       /\ first_applicable_part' = applicable[1].choice.part_no
       /\ applicable_choices' = sort_choices(applicable)
       /\ ai' = 1
       /\ pc' = "alloc"
       /\ UNCHANGED <<inputs, run_vars, scan_vars, available_inventory, outputs, project_vars>>

\* one iteration of the allocation loop
AllocStep ==
    LET item == applicable_choices[ai]
        remaining_need == remaining_need_of(required_qty, fulfilled_qty)
        current_stock == current_stock_of(available_inventory, item.choice_key)
        take_amount == take_amount_of(current_stock, remaining_need)
        display_no == DictGet(part_display, item.choice_key, item.choice.part_no)
    IN /\ pc = "alloc"
       /\ ai <= Len(applicable_choices)
       /\ remaining_need > 0
       /\ ai' = ai + 1
       /\ IF current_stock <= 0 \/ take_amount <= 0
          THEN UNCHANGED <<matched_details, fulfilled_qty, available_inventory>>
          ELSE /\ matched_details' = matched_add(matched_details, display_no, take_amount)
               /\ fulfilled_qty' = fulfilled_qty + take_amount
               /\ available_inventory' =
                      DictPut(available_inventory, item.choice_key,
                              deplete(current_stock, take_amount))
       /\ UNCHANGED <<inputs, run_vars, scan_vars, outputs, pc, project_vars, group, group_start_inventory,
                      required_qty, available_qty, applicable_choices,
                      first_applicable_part>>

\* the allocation loop ends; _evaluate_group returns its result
FinishGroup ==
    LET missing == compute_missing_qty(required_qty, fulfilled_qty)
        fallback == [i \in 1..Len(applicable_choices) |->
                        applicable_choices[i].choice.part_no]
        missing_cs == compute_missing_choices(
                          missing, first_applicable_part, fallback, group.choices)
        result == GroupResult(group.group_name, required_qty, available_qty,
                              missing, missing_cs, matched_details)
    IN /\ pc = "alloc"
       /\ \/ ai > Len(applicable_choices)
          \/ remaining_need_of(required_qty, fulfilled_qty) <= 0
       /\ AfterGroup(group, result)
       /\ NoLocals
       /\ pc' = "group"
       /\ UNCHANGED <<inputs, run_vars, scan_vars, available_inventory, results, nproj, project,
                      consumption_qty, group, group_start_inventory, applicable_choices>>

\* results.append(BindingProjectResult(...))
EmitProject ==
    /\ pc = "group"
    /\ results' = append_result(results,
                                ProjectResult(project, consumption_qty, group_results))
    /\ group_results' = <<>>
    /\ group' = NoGroup
    /\ group_start_inventory' = part_quantities
    /\ applicable_choices' = <<>>
    /\ pc' = "project"
    /\ UNCHANGED <<inputs, run_vars, scan_vars, available_inventory, used_parts, missing_items, nproj,
                   project, consumption_qty, required_qty, available_qty, fulfilled_qty,
                   matched_details, first_applicable_part, ai>>

\* return results, list(missing_items.values()), used_parts, debug_logs
Return ==
    /\ pc = "project"
    /\ pc' = "done"
    /\ UNCHANGED <<inputs, run_vars, scan_vars, available_inventory, outputs, project_vars, group,
                   group_start_inventory, group_locals>>

(***************************************************************************)
(* The library read so far is bounded: MaxProjects projects, and MaxGroups *)
(* groups over all of them.                                                *)
(***************************************************************************)
RECURSIVE groups_in(_)
groups_in(project_results) ==
    IF project_results = <<>> THEN 0
    ELSE Len(Head(project_results).requirement_results) + groups_in(Tail(project_results))

MoreProjects == nproj < MaxProjects
MoreGroups == groups_in(results) + Len(group_results) < MaxGroups

ProjectInputs == {Project(NameOf("P", nproj + 1), i) : i \in IndexPartNos}

GroupInput(shape) ==
    Group(NameOf("G", Len(group_results) + 1), shape.declared, shape.choices)

SkipSomeProject == MoreProjects /\ \E p \in ProjectInputs : SkipProject(p)
BeginSomeProject == MoreProjects /\ \E p \in ProjectInputs : BeginProject(p)
SomeGroupNotEnabled ==
    MoreGroups /\ \E shape \in GroupShapes : GroupNotEnabled(GroupInput(shape))
BeginSomeGroup ==
    MoreGroups /\ \E shape \in GroupShapes : BeginGroup(GroupInput(shape))

Next ==
    \/ SkipSomeProject
    \/ BeginSomeProject
    \/ SomeGroupNotEnabled
    \/ BeginSomeGroup
    \/ AllocStep
    \/ FinishGroup
    \/ EmitProject
    \/ Return

Spec == Init /\ [][Next]_vars

(***************************************************************************)
(* The same evaluator over groups whose choices carry every condition mode *)
(* (one of them in lower case) and condition lists of zero, one and two    *)
(* parts.                                                                  *)
(***************************************************************************)
CondModes == {ModeALL, <<"a", "n", "y">>, ModeNOTANY}
CondPartLists == {<<>>, <<KeyC>>, <<<<"b", " ">>, KeyC>>}
RichConditions == {Unconditional} \cup {<<m, c>> : m \in CondModes, c \in CondPartLists}

CondGroupShapes ==
    {[declared |-> NoNumber, choices |-> cs] :
        cs \in UNION {[1..n -> ChoicesOver(RichConditions)] : n \in 0..MaxChoices}}

CondGroupNotEnabled ==
    MoreGroups /\ \E shape \in CondGroupShapes : GroupNotEnabled(GroupInput(shape))
CondBeginGroup ==
    MoreGroups /\ \E shape \in CondGroupShapes : BeginGroup(GroupInput(shape))

NextCond ==
    \/ SkipSomeProject
    \/ BeginSomeProject
    \/ CondGroupNotEnabled
    \/ CondBeginGroup
    \/ AllocStep
    \/ FinishGroup
    \/ EmitProject
    \/ Return

\* conditions look at presence only: each part is in the BOM once, or not at all
PresenceInputs ==
    {q \in AggregatedInputs : \A k \in DOMAIN q : q[k] \in {0, 1}}

InitCond == \E quantities \in PresenceInputs : InitWith(quantities)

SpecCond == InitCond /\ [][NextCond]_vars

(***************************************************************************)
(* The same evaluator over groups whose choices spell one part in two ways *)
(* ("C" and "c") and carry a description or none, so that shortfalls of    *)
(* several groups meet in one missing item.                                *)
(***************************************************************************)
LowerC == <<"c">>

MissingChoices ==
    {Choice(KeyC, EmptyText, ModeNone, <<>>),
     Choice(LowerC, <<"c", "d">>, ModeNone, <<>>),
     Choice(KeyC, <<"c", "e">>, ModeNone, <<>>),
     Choice(KeyB, <<"x">>, ModeNone, <<>>)}

MissingGroupShapes ==
    {[declared |-> d, choices |-> cs] :
        d \in {NoNumber, Num(2)},
        cs \in UNION {[1..n -> MissingChoices] : n \in 0..MaxChoices}}

MissingGroupNotEnabled ==
    MoreGroups /\ \E shape \in MissingGroupShapes : GroupNotEnabled(GroupInput(shape))
MissingBeginGroup ==
    MoreGroups /\ \E shape \in MissingGroupShapes : BeginGroup(GroupInput(shape))

NextMissing ==
    \/ SkipSomeProject
    \/ BeginSomeProject
    \/ MissingGroupNotEnabled
    \/ MissingBeginGroup
    \/ AllocStep
    \/ FinishGroup
    \/ EmitProject
    \/ Return

SpecMissing == InitCond /\ [][NextMissing]_vars

(***************************************************************************)
(* execute, from the binding evaluation on: the scan for important         *)
(* materials and the remainder.  The library is a small one; the keyword   *)
(* file may be missing, and its lines may be blank or padded.              *)
(***************************************************************************)
\* the scan is handed the pool the evaluator has drawn on
scan_pool(quantities, pool) == pool

\* self._scan_important_materials(part_quantities, ...): the scan is handed the
\* aggregated quantities
scan_quantities(quantities, pool) == quantities

\* execute: _scan_important_materials(...), then remainder_keys
ScanAndRemainder(file) ==
    LET keywords == IF file.exists THEN read_keywords(file.lines) ELSE <<>>
        scanned == scan_quantities(part_quantities, available_inventory)
        hits == scan_hits(keywords, scanned, part_display, part_desc)
        matched == scan_matched_parts(keywords, scanned, part_display, part_desc)
    IN /\ pc = "done"
       /\ important_hits' = hits
       /\ important_part_numbers' = matched
       /\ remainder_keys' =
              compute_remainder_keys(DOMAIN part_quantities, used_parts, matched)
       /\ pc' = "finished"
       /\ UNCHANGED <<inputs, run_vars, available_inventory, outputs, project_vars,
                      group, group_start_inventory, group_locals>>

KeywordLines == {<<" ", "D">>, <<"a", "c">>, <<"z">>, <<" ">>}

KeywordFiles ==
    {NoFile} \cup {FileOf(ls) : ls \in UNION {[1..n -> KeywordLines] : n \in 0..MaxKeywords}}

ExecuteGroupShapes ==
    {[declared |-> NoNumber, choices |-> cs] :
        cs \in UNION {[1..n -> {Choice(KeyB, EmptyText, ModeNone, <<>>),
                                Choice(KeyC, EmptyText, ModeNone, <<>>)}] :
                         n \in 0..MaxChoices}}

ExecuteGroupNotEnabled ==
    MoreGroups /\ \E shape \in ExecuteGroupShapes : GroupNotEnabled(GroupInput(shape))
ExecuteBeginGroup ==
    MoreGroups /\ \E shape \in ExecuteGroupShapes : BeginGroup(GroupInput(shape))
ScanSomeKeywords == \E file \in KeywordFiles : ScanAndRemainder(file)

NextExecute ==
    \/ SkipSomeProject
    \/ BeginSomeProject
    \/ ExecuteGroupNotEnabled
    \/ ExecuteBeginGroup
    \/ AllocStep
    \/ FinishGroup
    \/ EmitProject
    \/ Return
    \/ ScanSomeKeywords

SpecExecute == Init /\ [][NextExecute]_vars

(***************************************************************************)
(* execute, invoked twice on the same aggregated quantities, the same      *)
(* binding library and the same keyword file, all given from the start.    *)
(***************************************************************************)
ProjectShapes ==
    {[index |-> i, groups |-> gs] :
        i \in IndexPartNos,
        gs \in UNION {[1..n -> ExecuteGroupShapes] : n \in 0..(MaxGroups - 1)}}

GivenLibraries == UNION {[1..n -> ProjectShapes] : n \in 0..MaxProjects}

GivenKeywordFiles == {NoFile, FileOf(<<<<"a", "c">>, <<" ", "D">>>>)}

ProjectAt(n) == Project(NameOf("P", n), library[n].index)
GroupAt(n, j) ==
    Group(NameOf("G", j), library[n].groups[j].declared, library[n].groups[j].choices)

\* ExecutionResult(binding_results, important_hits, missing_items)
ExecutionResult ==
    [binding_results |-> results, important_hits |-> important_hits,
     missing_items |-> missing_items]

GivenProjectSkipped ==
    pc = "project" /\ nproj < Len(library) /\ SkipProject(ProjectAt(nproj + 1))
GivenProjectBegun ==
    pc = "project" /\ nproj < Len(library) /\ BeginProject(ProjectAt(nproj + 1))
GivenGroupNotEnabled ==
    /\ pc = "group"
    /\ Len(group_results) < Len(library[nproj].groups)
    /\ GroupNotEnabled(GroupAt(nproj, Len(group_results) + 1))
GivenGroupBegun ==
    /\ pc = "group"
    /\ Len(group_results) < Len(library[nproj].groups)
    /\ BeginGroup(GroupAt(nproj, Len(group_results) + 1))
GivenProjectEmitted ==
    pc = "group" /\ Len(group_results) = Len(library[nproj].groups) /\ EmitProject
GivenLibraryDone == nproj = Len(library) /\ Return
GivenKeywordsScanned == ScanAndRemainder(keyword_file)

\* execute is invoked again: every local starts afresh
ExecuteAgain ==
    /\ pc = "finished"
    /\ run = 1
    /\ run' = 2
    /\ first_result' = ExecutionResult
    /\ available_inventory' = new_pool(part_quantities, available_inventory)
    /\ used_parts' = {}
    /\ missing_items' = <<>>
    /\ results' = <<>>
    /\ pc' = "project"
    /\ nproj' = 0
    /\ project' = NoProject
    /\ consumption_qty' = 0
    /\ group_results' = <<>>
    /\ group' = NoGroup
    /\ group_start_inventory' = part_quantities
    /\ applicable_choices' = <<>>
    /\ NoLocals
    /\ important_hits' = <<>>
    /\ important_part_numbers' = {}
    /\ remainder_keys' = {}
    /\ UNCHANGED inputs

NextTwice ==
    \/ GivenProjectSkipped
    \/ GivenProjectBegun
    \/ GivenGroupNotEnabled
    \/ GivenGroupBegun
    \/ AllocStep
    \/ FinishGroup
    \/ GivenProjectEmitted
    \/ GivenLibraryDone
    \/ GivenKeywordsScanned
    \/ ExecuteAgain

\* every part there or not, or the rows of B adding up to a negative quantity
TwiceInputs ==
    PresenceInputs
        \cup {q \in AggregatedInputs :
                 q[KeyB] < 0 /\ \A k \in DOMAIN q \ {KeyB} : q[k] = 1}

InitTwice ==
    \E quantities \in TwiceInputs, projects \in GivenLibraries,
       file \in GivenKeywordFiles : InitRun(quantities, projects, file)

SpecTwice == InitTwice /\ [][NextTwice]_vars

(***************************************************************************)
(* The worksheet stages of execute: replacement, aggregation, merge        *)
(***************************************************************************)
MaxRows == 2
MaxSheets == 2

\* the columns of the worksheets of the model: part, description, quantity, note
PartU1 == <<"U", "1">>
PartU3 == <<"u", " ", "3">>
PartU4 == <<"U", "4">>
NoteU2 == <<"U", "2">>
NoteU9 == <<"U", "9">>

RowOf(part, qty, note, black_part, black_rest) ==
    <<Cell(TextValue(part), black_part),
      Cell(TextValue(<<"d">>), black_rest),
      Cell(qty, black_rest),
      Cell(note, black_rest)>>

RowInputs ==
    {RowOf(part, qty, note, b[1], b[2]) :
        part \in {PartU1, PartU3, PartU4},
        qty \in {NumValue(1), TextValue(<<"x">>)},
        note \in {NoValue, TextValue(NoteU2), TextValue(NoteU9)},
        b \in {<<FALSE, FALSE>>, <<TRUE, FALSE>>, <<TRUE, TRUE>>}}

HeaderInputs ==
    {<<NoValue, NoValue, h, NoValue>> : h \in {NoValue, TextValue(<<"Q", "t", "y">>)}}

WorksheetInputs ==
    {[header |-> h, rows |-> rs] :
        h \in HeaderInputs, rs \in UNION {[1..n -> RowInputs] : n \in 1..MaxRows}}

\* a worksheet none of whose columns holds a text: a blank cell, a cell of
\* spaces, and nothing else
BlankSheet ==
    [header |-> <<NoValue, NoValue, NoValue, NoValue>>,
     rows |-> <<<<EmptyCell, Cell(TextValue(<<" ">>), FALSE), EmptyCell, EmptyCell>>>>]

OneRowSheets == {ws \in WorksheetInputs : Len(ws.rows) = 1}

\* a workbook: one worksheet, or a worksheet of one row before or after the
\* blank one
WorkbookInputs ==
    {<<ws>> : ws \in WorksheetInputs}
        \cup (IF MaxSheets >= 2
              THEN {<<BlankSheet, ws>> : ws \in OneRowSheets} \cup {<<ws, BlankSheet>> : ws \in OneRowSheets}
              ELSE {})

\* the directory: U1 is replaced by u2, U3 has no replacement
DirectoryRows ==
    <<<<TextValue(PartU1), TextValue(<<"o">>), TextValue(<<"u", "2">>), TextValue(<<"r">>)>>,
      <<TextValue(<<" ", "U", "3">>), NoValue, NoValue, NoValue>>>>

DirectoryInputs == {NoDirectory, [exists |-> TRUE, rows |-> DirectoryRows]}

\* str(value).strip() if value else ""
TextOrEmpty(v) == IF IsFalsy(v) THEN EmptyText ELSE str_strip(StrOf(v))

\* _apply_replacements: invalid_entries of the directory rows, a later row for
\* the same key taking the place of an earlier one
RECURSIVE load_invalid_entries(_)
load_invalid_entries(rows) ==
    IF rows = <<>> THEN <<>>
    ELSE LET row == rows[Len(rows)]
             earlier == load_invalid_entries(SubSeq(rows, 1, Len(rows) - 1))
             invalid_no == TextOrEmpty(row[1])
             entry == [invalid_no |-> invalid_no,
                       invalid_desc |-> TextOrEmpty(row[2]),
                       replacement_no |-> TextOrEmpty(row[3]),
                       replacement_desc |-> TextOrEmpty(row[4])]
         IN IF invalid_no # EmptyText
            THEN (normalize_part_no(invalid_no) :> entry) @@ earlier
            ELSE earlier

\* the directory entry the part cell of a row matches, if any
PartText(row, part_col_idx) == str_strip(StrOf(row[part_col_idx].value))

Matches(row, part_col_idx, entries) ==
    /\ ~ IsFalsy(row[part_col_idx].value)
    /\ normalize_part_no(PartText(row, part_col_idx)) \in DOMAIN entries

MatchOf(row, part_col_idx, entries) ==
    entries[normalize_part_no(PartText(row, part_col_idx))]

\* cell.fill = BLACK_FILL for the cells of the row tuple
blacken(row, width) ==
    [c \in 1..Len(row) |-> IF c <= width THEN Cell(row[c].value, TRUE) ELSE row[c]]

\* ws.cell(row, max_column + 1) and ws.cell(row, max_column + 2) get the
\* replacement and its description; the worksheet grows by two columns
append_replacement(ws, r, replacement_no, replacement_desc) ==
    LET desc_value == IF replacement_desc = EmptyText THEN NoValue ELSE TextValue(replacement_desc)
    IN [header |-> ws.header \o <<NoValue, NoValue>>,
        rows |-> [i \in 1..Len(ws.rows) |->
                    IF i = r
                    THEN ws.rows[i] \o <<Cell(TextValue(replacement_no), FALSE), Cell(desc_value, FALSE)>>
                    ELSE ws.rows[i] \o <<EmptyCell, EmptyCell>>]]

\* dict.setdefault
setdefault(mapping, k, v) == IF k \in DOMAIN mapping THEN mapping ELSE (k :> v) @@ mapping

\* defaultdict(float)[k] += qty
credit(quantities, k, qty) ==
    IF k \in DOMAIN quantities THEN [quantities EXCEPT ![k] = @ + qty]
    ELSE (k :> qty) @@ quantities

\* dict.pop(k, default), the mapping that is left
without(mapping, k) == [x \in (DOMAIN mapping) \ {k} |-> mapping[x]]

\* _extract_part_quantities: the description of a resolved row
row_description(row, resolved, cols) ==
    LET desc_cell ==
            IF cols.desc # NoColumn /\ cols.desc <= Len(row) THEN row[cols.desc]
            ELSE IF cols.desc = NoColumn /\ cols.part + 1 <= Len(row) THEN row[cols.part + 1]
            ELSE EmptyCell
    IN IF resolved.desc # EmptyText THEN resolved.desc
       ELSE IF ~ IsFalsy(desc_cell.value) THEN str_strip(StrOf(desc_cell.value))
       ELSE EmptyText

\* _extract_part_quantities: the quantity of a row is 1 without a quantity
\* column, the parsed cell with one, and 0 when the cell does not parse
HasQuantityCell(row, cols) == cols.qty # NoColumn /\ cols.qty <= Len(row)

row_quantity(row, cols) ==
    IF HasQuantityCell(row, cols)
    THEN LET parsed_quantity == _parse_quantity_value(row[cols.qty].value)
         IN IF parsed_quantity.ok THEN parsed_quantity.val ELSE 0
    ELSE 1

QuantityLogged(row, cols) ==
    HasQuantityCell(row, cols) /\ ~ _parse_quantity_value(row[cols.qty].value).ok

\* execute: one replacement record applied to the aggregated data
merge_record(data, record) ==
    IF record.replacement_part_no = EmptyText THEN data
    ELSE LET invalid_key == normalize_part_no(record.invalid_part_no)
             replacement_key == normalize_part_no(record.replacement_part_no)
             qty == IF invalid_key \in DOMAIN data.quantities
                    THEN data.quantities[invalid_key] ELSE 0
             quantities == without(data.quantities, invalid_key)
             desc == without(data.desc, invalid_key)
             display == without(data.display, invalid_key)
         IN [quantities |-> IF qty # 0 THEN credit(quantities, replacement_key, qty)
                            ELSE quantities,
             display |-> setdefault(display, replacement_key, record.replacement_part_no),
             desc |-> IF record.replacement_desc # EmptyText
                      THEN setdefault(desc, replacement_key, record.replacement_desc)
                      ELSE desc]

RECURSIVE merge_records(_, _)
merge_records(data, records) ==
    IF records = <<>> THEN data
    ELSE merge_records(merge_record(data, Head(records)), Tail(records))

evaluation_vars == <<available_inventory, outputs, pc, project_vars, group,
                     group_start_inventory, group_locals, scan_vars, library, environment>>

\* what no step of an invocation changes
sheet_given == <<loaded_worksheets, invalid_part_db, first_quantities, run_vars>>

aggregation == <<part_quantities, part_display, part_desc>>

\* the worksheet the running loop is at
worksheet == worksheets[sheet_idx]

\* _extract_part_quantities: the columns it identifies on a worksheet
identify_columns(ws) ==
    [qty |-> _identify_quantity_column(ws),
     part |-> _identify_part_column(ws),
     desc |-> _identify_description_column(ws, _identify_part_column(ws))]

\* the line of the trace that names the part column found on a worksheet
ColumnLine(stage, sheet, part_col_idx) ==
    [stage |-> stage, sheet |-> sheet, row |-> 0, part |-> part_col_idx]

\* the line of the trace for a matched row
RowLine(sheet, row) == [stage |-> "replace", sheet |-> sheet, row |-> row, part |-> 0]

\* _apply_replacements up to the worksheet loop: load_workbook raises when the
\* directory file is missing
LoadDirectory ==
    /\ sheet_pc = "load"
    /\ IF ~ invalid_part_db.exists
       THEN /\ sheet_pc' = "raised"
            /\ error' = "FileNotFoundError"
            /\ UNCHANGED invalid_entries
       ELSE /\ invalid_entries' = load_invalid_entries(invalid_part_db.rows)
            /\ sheet_pc' = "replace_sheet"
            /\ UNCHANGED error
    /\ sheet_idx' = 1
    /\ UNCHANGED <<worksheets, debug_logs, row_idx, iter_width, columns, summary, quantity_debug,
                   sheet_given, aggregation, evaluation_vars>>

AtReplaceSheet == sheet_pc = "replace_sheet" /\ sheet_idx <= Len(worksheets)

\* a worksheet without part column: the line of the trace, and the next worksheet
ReplaceSkipsSheet ==
    /\ AtReplaceSheet
    /\ _identify_part_column(worksheet) = NoColumn
    /\ debug_logs' = Append(debug_logs, ColumnLine("replace", sheet_idx, NoColumn))
    /\ columns' = [columns EXCEPT !.part = NoColumn]
    /\ sheet_idx' = sheet_idx + 1
    /\ UNCHANGED <<worksheets, sheet_pc, row_idx, iter_width, invalid_entries, summary,
                   quantity_debug, error, sheet_given, aggregation, evaluation_vars>>

\* a worksheet with one: the row loop starts
ReplaceBeginsSheet ==
    /\ AtReplaceSheet
    /\ _identify_part_column(worksheet) # NoColumn
    /\ debug_logs' = Append(debug_logs, ColumnLine("replace", sheet_idx, _identify_part_column(worksheet)))
    /\ columns' = [columns EXCEPT !.part = _identify_part_column(worksheet)]
    /\ iter_width' = max_column(worksheet)
    /\ row_idx' = 1
    /\ sheet_pc' = "replace"
    /\ UNCHANGED <<worksheets, sheet_idx, invalid_entries, summary, quantity_debug, error,
                   sheet_given, aggregation, evaluation_vars>>

ReplaceRowFrame ==
    UNCHANGED <<sheet_idx, iter_width, invalid_entries, columns, quantity_debug, sheet_given,
                aggregation, evaluation_vars>>

InReplaceLoop ==
    /\ sheet_pc = "replace"
    /\ row_idx <= Len(worksheet.rows)

\* a row with an empty part cell, or one the directory does not list
ReplaceSkipsRow ==
    /\ InReplaceLoop
    /\ ~ Matches(worksheet.rows[row_idx], columns.part, invalid_entries)
    /\ row_idx' = row_idx + 1
    /\ UNCHANGED <<worksheets, debug_logs, summary, sheet_pc, error>>
    /\ ReplaceRowFrame

\* a matched row that is already replaced: the summary has no
\* total_invalid_previously_marked to add to
ReplaceFindsMarkedRow ==
    /\ InReplaceLoop
    /\ Matches(worksheet.rows[row_idx], columns.part, invalid_entries)
    /\ _row_already_replaced(worksheet.rows[row_idx], columns.part,
                             MatchOf(worksheet.rows[row_idx], columns.part, invalid_entries).replacement_no)
    /\ summary' = [summary EXCEPT !.total_invalid_found = @ + 1]
    /\ sheet_pc' = "raised"
    /\ error' = "AttributeError"
    /\ UNCHANGED <<worksheets, debug_logs, row_idx>>
    /\ ReplaceRowFrame

\* a matched row that is not: blackened, the replacement appended, recorded
ReplaceMarksRow ==
    /\ InReplaceLoop
    /\ Matches(worksheet.rows[row_idx], columns.part, invalid_entries)
    /\ LET row == worksheet.rows[row_idx]
           match == MatchOf(row, columns.part, invalid_entries)
           marked == [worksheet EXCEPT !.rows[row_idx] = blacken(row, iter_width)]
           record == [invalid_part_no |-> match.invalid_no,
                      invalid_desc |-> match.invalid_desc,
                      replacement_part_no |-> match.replacement_no,
                      replacement_desc |-> match.replacement_desc,
                      sheet |-> sheet_idx,
                      row_index |-> row_idx]
       IN /\ ~ _row_already_replaced(row, columns.part, match.replacement_no)
          /\ worksheets' = [worksheets EXCEPT ![sheet_idx] =
                                IF match.replacement_no # EmptyText
                                THEN append_replacement(marked, row_idx, match.replacement_no,
                                                        match.replacement_desc)
                                ELSE marked]
          /\ summary' = [total_invalid_found |-> summary.total_invalid_found + 1,
                         total_replaced |-> IF match.replacement_no # EmptyText
                                            THEN summary.total_replaced + 1
                                            ELSE summary.total_replaced,
                         records |-> Append(summary.records, record)]
    /\ debug_logs' = Append(debug_logs, RowLine(sheet_idx, row_idx))
    /\ row_idx' = row_idx + 1
    /\ UNCHANGED <<sheet_pc, error>>
    /\ ReplaceRowFrame

\* the rows of the worksheet are done: the next worksheet
ReplaceEndsSheet ==
    /\ sheet_pc = "replace"
    /\ row_idx > Len(worksheet.rows)
    /\ sheet_idx' = sheet_idx + 1
    /\ sheet_pc' = "replace_sheet"
    /\ UNCHANGED <<worksheets, debug_logs, row_idx, iter_width, invalid_entries, summary, columns,
                   quantity_debug, error, sheet_given, aggregation, evaluation_vars>>

\* _apply_replacements returns; _extract_part_quantities starts
BeginExtract ==
    /\ sheet_pc = "replace_sheet"
    /\ sheet_idx > Len(worksheets)
    /\ sheet_pc' = "extract_sheet"
    /\ sheet_idx' = 1
    /\ UNCHANGED <<worksheets, debug_logs, row_idx, iter_width, invalid_entries, summary, columns,
                   quantity_debug, error, sheet_given, aggregation, evaluation_vars>>

AtExtractSheet == sheet_pc = "extract_sheet" /\ sheet_idx <= Len(worksheets)

\* a worksheet without part column: the line of the trace, and the next worksheet
ExtractSkipsSheet ==
    /\ AtExtractSheet
    /\ _identify_part_column(worksheet) = NoColumn
    /\ columns' = identify_columns(worksheet)
    /\ debug_logs' = Append(debug_logs, ColumnLine("extract", sheet_idx, NoColumn))
    /\ sheet_idx' = sheet_idx + 1
    /\ UNCHANGED <<worksheets, sheet_pc, row_idx, iter_width, invalid_entries, summary,
                   quantity_debug, error, sheet_given, aggregation, evaluation_vars>>

\* a worksheet with one: the row loop starts
ExtractBeginsSheet ==
    /\ AtExtractSheet
    /\ _identify_part_column(worksheet) # NoColumn
    /\ columns' = identify_columns(worksheet)
    /\ debug_logs' = Append(debug_logs, ColumnLine("extract", sheet_idx, _identify_part_column(worksheet)))
    /\ iter_width' = max_column(worksheet)
    /\ row_idx' = 1
    /\ sheet_pc' = "extract"
    /\ UNCHANGED <<worksheets, sheet_idx, invalid_entries, summary, quantity_debug, error,
                   sheet_given, aggregation, evaluation_vars>>

ExtractRowFrame ==
    UNCHANGED <<worksheets, sheet_idx, debug_logs, iter_width, invalid_entries, summary, columns,
                error, sheet_pc, sheet_given, evaluation_vars>>

InExtractLoop ==
    /\ sheet_pc = "extract"
    /\ row_idx <= Len(worksheet.rows)

\* a row no part is resolved for
ExtractSkipsRow ==
    /\ InExtractLoop
    /\ ~ _resolve_row_part(worksheet.rows[row_idx], columns.part).found
    /\ row_idx' = row_idx + 1
    /\ UNCHANGED <<aggregation, quantity_debug>>
    /\ ExtractRowFrame

\* a row counted under the part resolved for it
ExtractCountsRow ==
    /\ InExtractLoop
    /\ LET row == worksheet.rows[row_idx]
           resolved == _resolve_row_part(row, columns.part)
           desc_value == row_description(row, resolved, columns)
       IN /\ resolved.found
          /\ part_display' = setdefault(part_display, resolved.key, resolved.display)
          /\ part_desc' = IF desc_value # EmptyText
                          THEN setdefault(part_desc, resolved.key, desc_value)
                          ELSE part_desc
          /\ part_quantities' = credit(part_quantities, resolved.key, row_quantity(row, columns))
          /\ quantity_debug' = IF QuantityLogged(row, columns)
                               THEN Append(quantity_debug, row_idx)
                               ELSE quantity_debug
    /\ row_idx' = row_idx + 1
    /\ ExtractRowFrame

\* the rows of the worksheet are done: the next worksheet
ExtractEndsSheet ==
    /\ sheet_pc = "extract"
    /\ row_idx > Len(worksheet.rows)
    /\ sheet_idx' = sheet_idx + 1
    /\ sheet_pc' = "extract_sheet"
    /\ UNCHANGED <<worksheets, debug_logs, row_idx, iter_width, invalid_entries, summary, columns,
                   quantity_debug, error, sheet_given, aggregation, evaluation_vars>>

\* execute: the replacement records applied to the aggregated data, and the pool
MergeReplacements ==
    /\ sheet_pc = "extract_sheet"
    /\ sheet_idx > Len(worksheets)
    /\ LET merged == merge_records([quantities |-> part_quantities, desc |-> part_desc,
                                    display |-> part_display], summary.records)
       IN /\ part_quantities' = merged.quantities
          /\ part_desc' = merged.desc
          /\ part_display' = merged.display
          /\ available_inventory' = merged.quantities
    /\ sheet_pc' = "aggregated"
    /\ UNCHANGED <<worksheets, sheet_idx, debug_logs, row_idx, iter_width, invalid_entries,
                   summary, columns, quantity_debug, error, sheet_given, outputs, pc,
                   project_vars, group, group_start_inventory, group_locals, scan_vars, library,
                   environment>>

\* execute is called again on the worksheets the first call left
SheetProcessedAgain ==
    /\ sheet_pc = "aggregated"
    /\ run = 1
    /\ run' = 2
    /\ first_quantities' = part_quantities
    /\ loaded_worksheets' = worksheets
    /\ part_quantities' = <<>>
    /\ part_display' = <<>>
    /\ part_desc' = <<>>
    /\ available_inventory' = <<>>
    /\ sheet_pc' = "load"
    /\ sheet_idx' = 1
    /\ debug_logs' = <<>>
    /\ row_idx' = 1
    /\ iter_width' = 0
    /\ invalid_entries' = <<>>
    /\ summary' = NewSummary
    /\ columns' = NoColumns
    /\ quantity_debug' = <<>>
    /\ UNCHANGED <<worksheets, invalid_part_db, error, first_result, outputs, pc, project_vars,
                   group, group_start_inventory, group_locals, scan_vars, library, environment>>

NextSheet ==
    \/ LoadDirectory
    \/ ReplaceSkipsSheet
    \/ ReplaceBeginsSheet
    \/ ReplaceSkipsRow
    \/ ReplaceFindsMarkedRow
    \/ ReplaceMarksRow
    \/ ReplaceEndsSheet
    \/ BeginExtract
    \/ ExtractSkipsSheet
    \/ ExtractBeginsSheet
    \/ ExtractSkipsRow
    \/ ExtractCountsRow
    \/ ExtractEndsSheet
    \/ MergeReplacements
    \/ SheetProcessedAgain

InitSheet ==
    /\ NoTexts
    /\ AppStart(<<>>)
    /\ \E wss \in WorkbookInputs, db \in DirectoryInputs : SheetStart(wss, db)
    /\ sheet_pc = "load"
    /\ library = <<>>
    /\ keyword_file = NoFile
    /\ run = 1
    /\ first_result = NoResult
    /\ part_quantities = <<>>
    /\ part_display = <<>>
    /\ part_desc = <<>>
    /\ available_inventory = <<>>
    /\ used_parts = {}
    /\ missing_items = <<>>
    /\ results = <<>>
    /\ pc = "project"
    /\ nproj = 0
    /\ project = NoProject
    /\ consumption_qty = 0
    /\ group_results = <<>>
    /\ group = NoGroup
    /\ group_start_inventory = <<>>
    /\ required_qty = 0
    /\ available_qty = 0
    /\ fulfilled_qty = 0
    /\ matched_details = <<>>
    /\ applicable_choices = <<>>
    /\ first_applicable_part = EmptyText
    /\ ai = 1
    /\ important_hits = <<>>
    /\ important_part_numbers = {}
    /\ remainder_keys = {}

SpecSheet == InitSheet /\ [][NextSheet]_vars

(***************************************************************************)
(* The text functions on their own: normalize_part_no, normalize_text and  *)
(* _variants_match applied to short texts over blanks, letters of both     *)
(* cases and a character the converters change, with and without OpenCC.   *)
(***************************************************************************)
MaxTextLen == 2

TextChars == {" ", "a", "A", HaoTraditional, HaoSimplified}
TextInputs == UNION {[1..n -> TextChars] : n \in 0..MaxTextLen}

\* what the text functions neither read nor write
execute_vars == <<part_quantities, part_display, part_desc, library, keyword_file, sheet_vars,
                  available_inventory, outputs, pc, project_vars, group,
                  group_start_inventory, group_locals, scan_vars, run_vars>>

\* normalize_part_no(value) and normalize_text(value)
NormalizeOnce ==
    /\ text_pc = "given"
    /\ normalized_once' = [part_no |-> normalize_part_no(text_value),
                           text |-> normalize_text(text_value)]
    /\ text_pc' = "once"
    /\ UNCHANGED <<opencc, text_value, text_other, normalized_twice, variants_matched,
                   execute_vars, app_vars>>

\* the two functions applied to what they returned
NormalizeAgain ==
    /\ text_pc = "once"
    /\ normalized_twice' = [part_no |-> normalize_part_no(normalized_once.part_no),
                            text |-> normalize_text(normalized_once.text)]
    /\ text_pc' = "twice"
    /\ UNCHANGED <<opencc, text_value, text_other, normalized_once, variants_matched,
                   execute_vars, app_vars>>

\* the variants the scan collects for a keyword
KeywordVariants == keyword_variants_of(text_value)

\* the variants the scan collects for a part displayed as text_other
ValueVariants ==
    _collect_part_variants(text_other, normalize_part_no(text_other), EmptyText)

\* _variants_match(keyword_variants, variants), and with the arguments exchanged
MatchVariants ==
    /\ text_pc = "twice"
    /\ variants_matched' = [forth |-> _variants_match(KeywordVariants, ValueVariants),
                            back |-> _variants_match(ValueVariants, KeywordVariants)]
    /\ text_pc' = "matched"
    /\ UNCHANGED <<opencc, text_value, text_other, normalized_once, normalized_twice,
                   execute_vars, app_vars>>

NextText ==
    \/ NormalizeOnce
    \/ NormalizeAgain
    \/ MatchVariants

InitText ==
    /\ AppStart(<<>>)
    /\ opencc \in BOOLEAN
    /\ text_value \in TextInputs
    /\ text_other \in TextInputs
    /\ text_pc = "given"
    /\ normalized_once = [part_no |-> <<>>, text |-> <<>>]
    /\ normalized_twice = [part_no |-> <<>>, text |-> <<>>]
    /\ variants_matched = [forth |-> FALSE, back |-> FALSE]
    /\ SheetStart(<<>>, NoDirectory)
    /\ sheet_pc = "aggregated"
    /\ library = <<>>
    /\ keyword_file = NoFile
    /\ run = 1
    /\ first_result = NoResult
    /\ part_quantities = <<>>
    /\ part_display = <<>>
    /\ part_desc = <<>>
    /\ available_inventory = <<>>
    /\ used_parts = {}
    /\ missing_items = <<>>
    /\ results = <<>>
    /\ pc = "project"
    /\ nproj = 0
    /\ project = NoProject
    /\ consumption_qty = 0
    /\ group_results = <<>>
    /\ group = NoGroup
    /\ group_start_inventory = <<>>
    /\ required_qty = 0
    /\ available_qty = 0
    /\ fulfilled_qty = 0
    /\ matched_details = <<>>
    /\ applicable_choices = <<>>
    /\ first_applicable_part = EmptyText
    /\ ai = 1
    /\ important_hits = <<>>
    /\ important_part_numbers = {}
    /\ remainder_keys = {}

SpecText == InitText /\ [][NextText]_vars

(***************************************************************************)
(* The application: _execute and the execution thread it starts, the Tk    *)
(* event loop that runs the callbacks given to root.after, and the UI      *)
(* handlers that reach the binding library while a thread runs (the        *)
(* binding editor, the configuration reload).  _execute is taken as        *)
(* callable in every state: the button that calls it is disabled while an  *)
(* execution runs, and the lock is what the handler itself relies on.  The *)
(* projects of a library have no groups; the workbook holds one A and one  *)
(* B.                                                                      *)
(***************************************************************************)
MaxExecutions == 2
MaxLibraries == 2

AppIndexParts == {KeyA, KeyB}
AppFiles == {<<Project(NameOf("P", 1), index)>> : index \in AppIndexParts}
AppQuantities == [k \in AppIndexParts |-> 1]

\* a projects list of a library alone, and the list of the open editor, which
\* the editor goes on changing
Owned(project_list) == [alias |-> FALSE, value |-> project_list]
Shared == [alias |-> TRUE, value |-> <<>>]
ListOf(ref) == IF ref.alias THEN editor_projects ELSE ref.value

\* the editor takes a new list: what held its old one keeps that one as it is
Freeze(ref) == IF ref.alias THEN Owned(editor_projects) ELSE ref

\* threading.Thread(target=self._run_execution)
NewThread(project_list) ==
    [pc |-> "start", library |-> 0, list |-> Owned(<<>>), pos |-> 1, pool |-> <<>>,
     results |-> <<>>, outcome |-> "none", decided |-> FALSE,
     started_with |-> project_list]

\* what the application leaves alone
engine_side == <<execute_vars, text_vars>>

\* a request that starts a thread whatever the lock says
acquire_always(locked) == TRUE

\* self._execution_lock.acquire(blocking=False)
lock_acquire(locked) == ~ locked

\* _choose_file
ChooseFile ==
    /\ ~ selected_file
    /\ selected_file' = TRUE
    /\ UNCHANGED <<lock_vars, threads, after_queue, last_dialog, library_vars,
                   engine_side>>

\* _execute: no file selected
ExecuteWithoutFile ==
    /\ ~ selected_file
    /\ last_dialog' = "no_file"
    /\ UNCHANGED <<selected_file, lock_vars, threads, after_queue, library_vars, engine_side>>

\* _execute: the lock is held
ExecuteRejected ==
    /\ selected_file
    /\ ~ lock_acquire(execution_lock)
    /\ last_dialog' = "busy"
    /\ UNCHANGED <<selected_file, lock_vars, threads, after_queue, library_vars, engine_side>>

\* _execute: the lock is acquired, the button disabled, the thread started
ExecuteStarts ==
    /\ selected_file
    /\ lock_acquire(execution_lock)
    /\ Len(threads) < MaxExecutions
    /\ execution_lock' = TRUE
    /\ execute_button' = "disabled"
    /\ threads' = Append(threads, NewThread(ListOf(libraries[app_library])))
    /\ execution_thread' = Len(threads) + 1
    /\ UNCHANGED <<selected_file, after_queue, last_dialog, library_vars,
                   engine_side>>

\* _reload_config, _apply_config: a new BindingLibrary, loaded from the file
ReloadConfig ==
    /\ Len(libraries) < MaxLibraries
    /\ libraries' = Append(libraries, Owned(binding_file))
    /\ app_library' = Len(libraries) + 1
    /\ UNCHANGED <<selected_file, lock_vars, threads, after_queue, last_dialog,
                   editor_library, editor_projects, binding_file, engine_side>>

\* _open_binding_editor, BindingEditor._load_data: the library reloads its file
\* and the editor copies its projects
OpenBindingEditor ==
    /\ editor_library = 0
    /\ editor_library' = app_library
    /\ libraries' = [libraries EXCEPT ![app_library] = Owned(binding_file)]
    /\ editor_projects' = binding_file
    /\ UNCHANGED <<selected_file, lock_vars, threads, after_queue, last_dialog,
                   app_library, binding_file, engine_side>>

\* BindingEditor._commit_project_fields: the index part of a project is edited
EditorCommitsProject ==
    /\ editor_library # 0
    /\ \E i \in 1..Len(editor_projects), index \in AppIndexParts :
          /\ editor_projects[i].index_part_no # index
          /\ editor_projects' = [editor_projects EXCEPT ![i].index_part_no = index]
    /\ UNCHANGED <<selected_file, lock_vars, threads, after_queue, last_dialog,
                   libraries, app_library, editor_library, binding_file, engine_side>>

\* BindingEditor._save: the library takes the editor's list and writes the file
EditorSaves ==
    /\ editor_library # 0
    /\ libraries' = [libraries EXCEPT ![editor_library] = Shared]
    /\ binding_file' = editor_projects
    /\ UNCHANGED <<selected_file, lock_vars, threads, after_queue, last_dialog,
                   app_library, editor_library, editor_projects, engine_side>>

\* BindingEditor._import_excel: import_excel replaces the projects and saves,
\* _load_data reloads the file and copies the projects
EditorImports ==
    /\ editor_library # 0
    /\ \E imported \in AppFiles :
          /\ libraries' = [i \in 1..Len(libraries) |->
                              IF i = editor_library THEN Owned(imported)
                              ELSE Freeze(libraries[i])]
          /\ binding_file' = imported
          /\ editor_projects' = imported
    /\ threads' = [t \in 1..Len(threads) |-> [threads[t] EXCEPT !.list = Freeze(@)]]
    /\ UNCHANGED <<selected_file, lock_vars, after_queue, last_dialog,
                   app_library, editor_library, engine_side>>

thread_frame ==
    UNCHANGED <<selected_file, lock_vars, last_dialog, library_vars,
                engine_side>>

\* _run_execution: self.processor.execute(self.selected_file, self.binding_library)
RunExecutionBegins(t) ==
    /\ threads[t].pc = "start"
    /\ threads' = [threads EXCEPT ![t].pc = "execute", ![t].library = app_library]
    /\ UNCHANGED after_queue
    /\ thread_frame

\* execute reaches the evaluation: a pool of its own, binding_library.iter_projects()
EngineBeginsEvaluation(t) ==
    /\ threads[t].pc = "execute"
    /\ threads' = [threads EXCEPT ![t].pc = "evaluate",
                                  ![t].list = libraries[threads[t].library],
                                  ![t].pos = 1,
                                  ![t].pool = AppQuantities,
                                  ![t].results = <<>>]
    /\ UNCHANGED after_queue
    /\ thread_frame

\* for project in binding_library.iter_projects(): one project without groups
EngineEvaluatesProject(t) ==
    LET thread == threads[t]
        p == ListOf(thread.list)[thread.pos]
        index_key == index_key_of(p)
        project_qty == DictGet(AppQuantities, index_key, 0)
        available_index_qty == DictGet(thread.pool, index_key, 0)
        qty == compute_consumption_qty(project_qty, available_index_qty)
    IN /\ thread.pc = "evaluate"
       /\ thread.pos <= Len(ListOf(thread.list))
       /\ threads' =
              IF skip_project(project_qty, available_index_qty)
              THEN [threads EXCEPT ![t].pos = @ + 1]
              ELSE [threads EXCEPT
                       ![t].pos = @ + 1,
                       ![t].pool = DictPut(@, index_key, deplete(available_index_qty, qty)),
                       ![t].results = append_result(@, ProjectResult(p, qty, <<>>))]
       /\ UNCHANGED after_queue
       /\ thread_frame

EvaluationOver(t) ==
    /\ threads[t].pc = "evaluate"
    /\ threads[t].pos > Len(ListOf(threads[t].list))

\* execute returns its result
EngineReturns(t) ==
    /\ EvaluationOver(t)
    /\ threads' = [threads EXCEPT ![t].pc = "report", ![t].outcome = "returned"]
    /\ UNCHANGED after_queue
    /\ thread_frame

\* except SaveWorkbookError: _handle_save_error hands the prompt to the event
\* loop and waits for the decision
EngineSaveError(t) ==
    /\ EvaluationOver(t)
    /\ threads' = [threads EXCEPT ![t].pc = "wait", ![t].outcome = "save_error"]
    /\ after_queue' = Append(after_queue, [kind |-> "prompt", thread |-> t])
    /\ thread_frame

\* the exception ends the thread and nothing is handed to the event loop
raise_without_finally(t) ==
    /\ \/ threads[t].pc = "execute"
       \/ EvaluationOver(t)
    /\ threads' = [threads EXCEPT ![t] = [NewThread(<<>>) EXCEPT !.pc = "ended",
                                                                !.outcome = "raised"]]
    /\ UNCHANGED after_queue
    /\ thread_frame

\* except Exception: the failure goes to the result box, and return
EngineRaises(t) ==
    /\ \/ threads[t].pc = "execute"
       \/ EvaluationOver(t)
    /\ threads' = [threads EXCEPT ![t].pc = "finally", ![t].outcome = "raised"]
    /\ UNCHANGED after_queue
    /\ thread_frame

\* decision_event.wait() returns
ThreadDecided(t) ==
    /\ threads[t].pc = "wait"
    /\ threads[t].decided
    /\ threads' = [threads EXCEPT ![t].pc = "report"]
    /\ UNCHANGED after_queue
    /\ thread_frame

\* _build_summary_lines, _update_result_box: the result goes to the result box
ThreadReports(t) ==
    /\ threads[t].pc = "report"
    /\ threads' = [threads EXCEPT ![t].pc = "finally"]
    /\ UNCHANGED after_queue
    /\ thread_frame

\* finally: self.root.after(0, self._on_execution_complete); the thread ends and
\* its locals with it
ThreadFinally(t) ==
    /\ threads[t].pc = "finally"
    /\ threads' = [threads EXCEPT ![t] = [NewThread(<<>>) EXCEPT !.pc = "ended",
                                                                !.outcome = threads[t].outcome]]
    /\ after_queue' = Append(after_queue, [kind |-> "complete", thread |-> t])
    /\ thread_frame

\* the event loop runs prompt: the dialogs are answered, decision_event.set()
RunPrompt ==
    /\ after_queue # <<>>
    /\ Head(after_queue).kind = "prompt"
    /\ threads' = [threads EXCEPT ![Head(after_queue).thread].decided = TRUE]
    /\ after_queue' = Tail(after_queue)
    /\ thread_frame

\* the event loop runs _on_execution_complete
RunComplete ==
    /\ after_queue # <<>>
    /\ Head(after_queue).kind = "complete"
    /\ execute_button' = "normal"
    /\ execution_lock' = FALSE
    /\ execution_thread' = 0
    /\ after_queue' = Tail(after_queue)
    /\ UNCHANGED <<selected_file, threads, last_dialog, library_vars,
                   engine_side>>

RunExecutionBeginsSome == \E t \in 1..Len(threads) : RunExecutionBegins(t)
EngineBeginsEvaluationSome == \E t \in 1..Len(threads) : EngineBeginsEvaluation(t)
EngineEvaluatesProjectSome == \E t \in 1..Len(threads) : EngineEvaluatesProject(t)
EngineReturnsSome == \E t \in 1..Len(threads) : EngineReturns(t)
EngineSaveErrorSome == \E t \in 1..Len(threads) : EngineSaveError(t)
EngineRaisesSome == \E t \in 1..Len(threads) : EngineRaises(t)
ThreadDecidedSome == \E t \in 1..Len(threads) : ThreadDecided(t)
ThreadReportsSome == \E t \in 1..Len(threads) : ThreadReports(t)
ThreadFinallySome == \E t \in 1..Len(threads) : ThreadFinally(t)

\* a step of an execution thread
ThreadStep ==
    \/ RunExecutionBeginsSome
    \/ EngineBeginsEvaluationSome
    \/ EngineEvaluatesProjectSome
    \/ EngineReturnsSome
    \/ EngineSaveErrorSome
    \/ EngineRaisesSome
    \/ ThreadDecidedSome
    \/ ThreadReportsSome
    \/ ThreadFinallySome

\* the event loop runs the callback that has waited longest
Callback ==
    \/ RunPrompt
    \/ RunComplete

NextApp ==
    \/ ChooseFile
    \/ ExecuteWithoutFile
    \/ ExecuteRejected
    \/ ExecuteStarts
    \/ ReloadConfig
    \/ OpenBindingEditor
    \/ EditorCommitsProject
    \/ EditorSaves
    \/ EditorImports
    \/ RunExecutionBeginsSome
    \/ EngineBeginsEvaluationSome
    \/ EngineEvaluatesProjectSome
    \/ EngineReturnsSome
    \/ EngineSaveErrorSome
    \/ EngineRaisesSome
    \/ ThreadDecidedSome
    \/ ThreadReportsSome
    \/ ThreadFinallySome
    \/ RunPrompt
    \/ RunComplete

InitApp ==
    /\ \E file_projects \in AppFiles : AppStart(file_projects)
    /\ NoTexts
    /\ SheetStart(<<>>, NoDirectory)
    /\ sheet_pc = "aggregated"
    /\ library = <<>>
    /\ keyword_file = NoFile
    /\ run = 1
    /\ first_result = NoResult
    /\ part_quantities = <<>>
    /\ part_display = <<>>
    /\ part_desc = <<>>
    /\ available_inventory = <<>>
    /\ used_parts = {}
    /\ missing_items = <<>>
    /\ results = <<>>
    /\ pc = "project"
    /\ nproj = 0
    /\ project = NoProject
    /\ consumption_qty = 0
    /\ group_results = <<>>
    /\ group = NoGroup
    /\ group_start_inventory = <<>>
    /\ required_qty = 0
    /\ available_qty = 0
    /\ fulfilled_qty = 0
    /\ matched_details = <<>>
    /\ applicable_choices = <<>>
    /\ first_applicable_part = EmptyText
    /\ ai = 1
    /\ important_hits = <<>>
    /\ important_part_numbers = {}
    /\ remainder_keys = {}

SpecApp == InitApp /\ [][NextApp]_vars

\* the thread is scheduled until it ends, and the event loop runs every callback
\* it was handed
SpecAppFair == SpecApp /\ WF_vars(ThreadStep) /\ WF_vars(Callback)

(***************************************************************************)
(* Observations shared by the properties                                   *)
(***************************************************************************)
Balance(inventory, k) == DictGet(inventory, k, 0)

\* every group result produced so far
RECURSIVE groups_of(_)
groups_of(project_results) ==
    IF project_results = <<>> THEN <<>>
    ELSE Head(project_results).requirement_results \o groups_of(Tail(project_results))

AllGroupResults == groups_of(results) \o group_results

RECURSIVE SumMatched(_)
SumMatched(details) ==
    IF details = <<>> THEN 0 ELSE Head(details).qty + SumMatched(Tail(details))

\* a group of the current project has been evaluated and its result is the last one
GroupEvaluated == pc = "group" /\ group # NoGroup /\ group_results # <<>>
LastGroupResult == group_results[Len(group_results)]

\* the multiplier a group declares: its number, 1 when absent or unparsable
DeclaredMultiplier(g) == IF g.declared.tag = "num" THEN g.declared.val ELSE 1

\* the step in which the project loop consumes the index part of a project
IndexConsumedStep == pc = "project" /\ pc' = "group"

\* a step of the allocation loop that takes from a choice
ChoiceTakenStep == pc = "alloc" /\ pc' = "alloc" /\ fulfilled_qty' # fulfilled_qty

(***************************************************************************)
(* C1                                                                      *)
(***************************************************************************)
C1_StepWithinBalance ==
    /\ IndexConsumedStep =>
          /\ consumption_qty' <= Balance(available_inventory, index_key_of(project'))
          /\ Balance(available_inventory, index_key_of(project'))
               - Balance(available_inventory', index_key_of(project'))
                 <= Balance(available_inventory, index_key_of(project'))
    /\ ChoiceTakenStep =>
          /\ fulfilled_qty' - fulfilled_qty
                 <= Balance(available_inventory, applicable_choices[ai].choice_key)
          /\ Balance(available_inventory, applicable_choices[ai].choice_key)
               - Balance(available_inventory', applicable_choices[ai].choice_key)
                 <= Balance(available_inventory, applicable_choices[ai].choice_key)

C1_PoolNonNegative ==
    \A k \in DOMAIN available_inventory : available_inventory[k] >= 0

\* C1 as claimed: every consumption step (index part, choice take) takes no more
\* than the pool balance of its key at that moment, and no pool balance is ever
\* negative, whatever the aggregated quantities are.
C1_NeverNegative == [][C1_StepWithinBalance]_vars /\ []C1_PoolNonNegative

C1_PoolNotBelowStart ==
    \A k \in DOMAIN available_inventory :
        available_inventory[k] >= Min(Balance(part_quantities, k), 0)

\* C1 amended: every consumption step (index part, choice take) takes no more
\* than the pool balance of its key at that moment, and no consumption makes a
\* balance negative: a balance is never below min(aggregated quantity, 0), so it
\* is negative only for a part whose aggregated quantity is negative.
C1_ConsumptionWithinBalance == [][C1_StepWithinBalance]_vars /\ []C1_PoolNotBelowStart

\* a choice has been drained to zero by the allocation loop while another part
\* kept its negative aggregated quantity
C1_Witness ==
    /\ pc = "alloc"
    /\ fulfilled_qty > 0
    /\ \E k \in DOMAIN available_inventory :
          available_inventory[k] = 0 /\ group_start_inventory[k] > 0
    /\ \E k \in DOMAIN available_inventory : available_inventory[k] < 0

(***************************************************************************)
(* C2                                                                      *)
(***************************************************************************)
\* C2: for every group result, missing_qty = max(required_qty - fulfilled, 0),
\* fulfilled being the sum of the quantities in the result's matched_details.
C2_MissingIsShortfall ==
    \A i \in 1..Len(AllGroupResults) :
        LET r == AllGroupResults[i]
        IN r.missing_qty = Max(r.required_qty - SumMatched(r.matched_details), 0)

\* a group was partly fulfilled: something matched, something missing
C2_Witness ==
    \E i \in 1..Len(AllGroupResults) :
        /\ AllGroupResults[i].missing_qty > 0
        /\ SumMatched(AllGroupResults[i].matched_details) > 0

(***************************************************************************)
(* C3                                                                      *)
(***************************************************************************)
\* C3: for every group of an evaluated project, required_qty is the consumed
\* index quantity times the group's multiplier (the declared number, 1 only when
\* it is absent or unparsable), and required_qty is never negative.
C3_RequiredIsIndexTimesMultiplier ==
    GroupEvaluated =>
        /\ LastGroupResult.required_qty = consumption_qty * DeclaredMultiplier(group)
        /\ LastGroupResult.required_qty >= 0

(***************************************************************************)
(* C4                                                                      *)
(***************************************************************************)
NoChoiceApplicable(g) ==
    \A i \in 1..Len(g.choices) :
        \/ g.choices[i].part_no = EmptyText
        \/ ~ _choice_condition_met(g.choices[i], part_quantities)

RECURSIVE HasPrefix(_, _)
HasPrefix(text, prefix) ==
    \/ prefix = <<>>
    \/ /\ text # <<>>
       /\ Head(text) = Head(prefix)
       /\ HasPrefix(Tail(text), Tail(prefix))

\* C4: when no choice of a group is applicable, the group's whole required
\* quantity (consumed index quantity times multiplier) is reported missing and the
\* missing items hold an item labelled with the group name.
C4_NoApplicableChoiceIsMissing ==
    (GroupEvaluated /\ NoChoiceApplicable(group)) =>
        /\ LastGroupResult.missing_qty = consumption_qty * DeclaredMultiplier(group)
        /\ \E i \in 1..Len(missing_items) :
              HasPrefix(missing_items[i].part_no, group.group_name)

(***************************************************************************)
(* Observations on the group evaluated last                                *)
(***************************************************************************)
\* the allocation of a group is under way or has just ended
InGroup == pc \in {"alloc", "group"} /\ group # NoGroup /\ applicable_choices # <<>>

\* _evaluate_group has returned the result of a group with applicable choices
GroupDone == pc = "group" /\ group # NoGroup /\ applicable_choices # <<>>

ApplicableIdx == {applicable_choices[i].idx : i \in 1..Len(applicable_choices)}
ApplicableKeys == {normalize_part_no(group.choices[i].part_no) : i \in ApplicableIdx}

StartBalance(k) == Balance(group_start_inventory, k)
Received(k) == StartBalance(k) - Balance(available_inventory, k)

\* the first declaration of key k among the applicable choices
FirstIdxOf(k) ==
    CHOOSE i \in ApplicableIdx :
        /\ normalize_part_no(group.choices[i].part_no) = k
        /\ \A j \in ApplicableIdx :
              normalize_part_no(group.choices[j].part_no) = k => i <= j

\* j is consumed before k: higher balance at group start, then earlier declaration
KeyRankedBefore(j, k) ==
    \/ StartBalance(j) > StartBalance(k)
    \/ (StartBalance(j) = StartBalance(k) /\ FirstIdxOf(j) < FirstIdxOf(k))

TopKey ==
    CHOOSE t \in ApplicableKeys :
        \A j \in ApplicableKeys : j # t => KeyRankedBefore(t, j)

FirstApplicablePart ==
    group.choices[CHOOSE i \in ApplicableIdx : \A j \in ApplicableIdx : i <= j].part_no

RECURSIVE SumStartBalance(_)
SumStartBalance(keys) ==
    IF keys = {} THEN 0
    ELSE LET k == CHOOSE x \in keys : TRUE
         IN StartBalance(k) + SumStartBalance(keys \ {k})

RECURSIVE SumPositiveStart(_)
SumPositiveStart(keys) ==
    IF keys = {} THEN 0
    ELSE LET k == CHOOSE x \in keys : TRUE
         IN Max(StartBalance(k), 0) + SumPositiveStart(keys \ {k})

(***************************************************************************)
(* C5                                                                      *)
(***************************************************************************)
ConditionSet(choice) ==
    {normalize_part_no(choice.condition_part_nos[i]) :
        i \in {n \in 1..Len(choice.condition_part_nos) :
                  choice.condition_part_nos[n] # EmptyText}}

Aggregated(k) == Balance(part_quantities, k)

\* the rule of the claim; empty_notany is what NOTANY gives on an empty set
ApplicableByRule(choice, empty_notany) ==
    LET mode == str_upper(choice.condition_mode)
        S == ConditionSet(choice)
    IN CASE mode = ModeNone -> TRUE
         [] mode = ModeALL -> S # {} /\ \A k \in S : Aggregated(k) > 0
         [] mode = ModeANY -> \E k \in S : Aggregated(k) > 0
         [] mode = ModeNOTANY ->
                IF S = {} THEN empty_notany ELSE \A k \in S : Aggregated(k) <= 0

\* a group has been filtered: the choices counted applicable are those of the rule
FilterFollowsRule(empty_notany) ==
    (pc \in {"alloc", "group"} /\ group # NoGroup) =>
        \A i \in 1..Len(group.choices) :
            i \in ApplicableIdx <=>
                /\ group.choices[i].part_no # EmptyText
                /\ ApplicableByRule(group.choices[i], empty_notany)

\* C5 as claimed: a choice with a non-empty part number is applicable, judged on
\* the aggregated quantities whatever the pool holds: without mode always; ALL iff
\* every condition part has a positive aggregated quantity and the set is not
\* empty; ANY iff at least one has; NOTANY iff none has (an empty set included).
C5_ApplicableAsClaimed == FilterFollowsRule(TRUE)

\* C5 amended: as above, but NOTANY iff the condition set is not empty and none of
\* its parts has a positive aggregated quantity: with an empty condition set a
\* choice is never applicable under any mode.  The pool is not looked at.
C5_ApplicableOnAggregated == FilterFollowsRule(FALSE)

\* a conditional choice is applicable although the pool holds nothing any more of
\* a condition part whose aggregated quantity is positive
C5_Witness ==
    /\ InGroup
    /\ \E i \in ApplicableIdx :
          /\ str_upper(group.choices[i].condition_mode) \in {ModeALL, ModeANY}
          /\ \E k \in ConditionSet(group.choices[i]) :
                Aggregated(k) > 0 /\ StartBalance(k) <= 0

(***************************************************************************)
(* C6                                                                      *)
(***************************************************************************)
ReceivedInOrder ==
    InGroup =>
        \A k \in ApplicableKeys :
            Received(k) > 0 =>
                \A j \in ApplicableKeys :
                    KeyRankedBefore(j, k) =>
                        StartBalance(j) > 0 /\ Balance(available_inventory, j) = 0

TopAloneCovers ==
    (GroupDone /\ LastGroupResult.required_qty > 0
               /\ StartBalance(TopKey) >= LastGroupResult.required_qty) =>
        /\ Len(LastGroupResult.matched_details) = 1
        /\ normalize_part_no(LastGroupResult.matched_details[1].part_no) = TopKey
        /\ LastGroupResult.matched_details[1].qty = LastGroupResult.required_qty
        /\ Received(TopKey) = LastGroupResult.required_qty
        /\ \A k \in DOMAIN available_inventory :
              k # TopKey => available_inventory[k] = group_start_inventory[k]

\* C6: within a group the applicable choices are consumed in descending order of
\* their pool balance at the start of the group, ties in declaration order: a
\* choice has received something only if every applicable choice ranked before it
\* has been drained to zero; and when the top choice alone covers the requirement,
\* the whole requirement is taken from it and no other balance changes.
C6_DescendingBalanceOrder == ReceivedInOrder /\ TopAloneCovers

\* the choice declared second had the higher balance and was taken from, the one
\* declared first kept its positive balance
C6_Witness ==
    /\ GroupDone
    /\ Len(applicable_choices) = 2
    /\ applicable_choices[1].idx = 2
    /\ Received(applicable_choices[1].choice_key) > 0
    /\ StartBalance(applicable_choices[2].choice_key) > 0
    /\ Received(applicable_choices[2].choice_key) = 0

(***************************************************************************)
(* C7                                                                      *)
(***************************************************************************)
Fulfilled(result) == SumMatched(result.matched_details)

\* C7 as claimed: for a group with an applicable choice, fulfilled is
\* min(required_qty, S), S the sum of the pool balances of the distinct applicable
\* keys at group start; when S < required_qty the missing quantity is the
\* shortfall, every applicable balance is 0 afterwards and missing_choices is the
\* first applicable choice alone; otherwise missing_choices is empty.
C7_FulfilledAsClaimed ==
    GroupDone =>
        LET r == LastGroupResult
            S == SumStartBalance(ApplicableKeys)
        IN /\ Fulfilled(r) = Min(r.required_qty, S)
           /\ IF S < r.required_qty
              THEN /\ r.missing_qty = r.required_qty - S
                   /\ \A k \in ApplicableKeys : Balance(available_inventory, k) = 0
                   /\ r.missing_choices = <<FirstApplicablePart>>
              ELSE r.missing_choices = <<>>

\* C7 amended: only what is positive counts.  With S the sum of the positive pool
\* balances of the distinct applicable keys at group start, fulfilled is
\* min(max(required_qty, 0), S); when S < required_qty the missing quantity is
\* required_qty - S, no applicable balance is positive afterwards and
\* missing_choices is the first applicable choice alone; otherwise nothing is
\* missing and missing_choices is empty.
C7_FulfilledFromPositiveBalances ==
    GroupDone =>
        LET r == LastGroupResult
            S == SumPositiveStart(ApplicableKeys)
        IN /\ Fulfilled(r) = Min(Max(r.required_qty, 0), S)
           /\ IF S < r.required_qty
              THEN /\ r.missing_qty = r.required_qty - S
                   /\ \A k \in ApplicableKeys : Balance(available_inventory, k) <= 0
                   /\ r.missing_choices = <<FirstApplicablePart>>
              ELSE r.missing_qty = 0 /\ r.missing_choices = <<>>

\* two applicable parts were both drained and the group is still short
C7_Witness ==
    /\ GroupDone
    /\ Cardinality(ApplicableKeys) = 2
    /\ \A k \in ApplicableKeys : StartBalance(k) > 0 /\ Balance(available_inventory, k) = 0
    /\ LastGroupResult.missing_qty > 0

(***************************************************************************)
(* Observations on the project loop                                        *)
(***************************************************************************)
\* the project loop reaches its next project
ProjectStep == nproj' = nproj + 1

IndexTotal(p) == Balance(part_quantities, index_key_of(p))
IndexBalance(p) == Balance(available_inventory, index_key_of(p))

\* the project reached last is under evaluation
ProjectOpen == pc \in {"group", "alloc"}

\* the position a project or group name carries
PositionOf(name) == CHOOSE n \in 1..Len(Digits) : name = <<name[1], Digits[n]>>

GroupsInOrder(group_list) ==
    \A j \in 1..Len(group_list) : group_list[j].group_name = NameOf("G", j)

(***************************************************************************)
(* C8                                                                      *)
(***************************************************************************)
SharedPoolStep ==
    ProjectStep =>
        /\ IndexBalance(project') <= 0 =>
              pc' = "project" /\ UNCHANGED <<available_inventory, results>>
        /\ pc' = "group" =>
              /\ consumption_qty' = Min(IndexTotal(project'), IndexBalance(project'))
              /\ Balance(available_inventory', index_key_of(project'))
                     = IndexBalance(project') - consumption_qty'

\* what an evaluated project consumed of its index part is gone from the pool
ConsumedIsGone ==
    /\ \A i \in 1..Len(results) :
          Balance(available_inventory, normalize_part_no(results[i].index_part_no))
              <= Balance(part_quantities, normalize_part_no(results[i].index_part_no))
                     - results[i].matched_quantity
    /\ ProjectOpen => IndexBalance(project) <= IndexTotal(project) - consumption_qty

\* C8: projects with the same normalized index key draw on one pool balance in
\* declared order: a project that is evaluated consumes min(aggregated total, pool
\* balance) of its index key, which leaves the pool; a later project with that key
\* finds what is left, and is skipped when nothing is left.
C8_SharedIndexPool == [][SharedPoolStep]_vars /\ []ConsumedIsGone

\* the second project has the index key of the first, which was evaluated, and
\* has been skipped
C8_Witness ==
    /\ pc = "project"
    /\ nproj = 2
    /\ Len(results) = 1
    /\ index_key_of(project) = normalize_part_no(results[1].index_part_no)
    /\ IndexTotal(project) > 0
    /\ IndexBalance(project) = 0

(***************************************************************************)
(* C9                                                                      *)
(***************************************************************************)
ResultsInOrder ==
    /\ \A i \in 1..Len(results) :
          /\ GroupsInOrder(results[i].requirement_results)
          /\ \A j \in 1..Len(results) :
                i < j => PositionOf(results[i].project_desc)
                             < PositionOf(results[j].project_desc)
    /\ GroupsInOrder(group_results)
    /\ ProjectOpen =>
          \A i \in 1..Len(results) :
              PositionOf(results[i].project_desc) < PositionOf(project.project_desc)

\* what has been reported is final: later groups and projects add to it only
EarlierResultsStable ==
    /\ Len(results') >= Len(results)
    /\ \A i \in 1..Len(results) : results'[i] = results[i]
    /\ IF Len(results') > Len(results)
       THEN /\ Len(results') = Len(results) + 1
            /\ results'[Len(results')] =
                   ProjectResult(project, consumption_qty, group_results)
       ELSE \/ group_results' = <<>> /\ ProjectStep
            \/ /\ Len(group_results') >= Len(group_results)
               /\ \A j \in 1..Len(group_results) : group_results'[j] = group_results[j]

\* C9: the results list the evaluated projects in declared order and each
\* project's group results in declared group order; the result of a project is
\* final when the loop moves on, so that it depends on the aggregated quantities
\* and on the projects up to it only, whatever projects follow in the library.
C9_InputOrderPreserved == []ResultsInOrder /\ [][EarlierResultsStable]_vars

\* two projects contested one part: the first got it, the second reports it missing
C9_Witness ==
    /\ Len(results) = 2
    /\ Len(results[1].requirement_results) = 1
    /\ Len(results[2].requirement_results) = 1
    /\ results[1].requirement_results[1].missing_qty = 0
    /\ results[1].requirement_results[1].matched_details # <<>>
    /\ results[2].requirement_results[1].missing_qty > 0
    /\ results[2].requirement_results[1].matched_details = <<>>
    /\ results[2].requirement_results[1].available_qty > 0

(***************************************************************************)
(* C10                                                                     *)
(***************************************************************************)
SkippedLeavesNoTrace ==
    (ProjectStep /\ (IndexTotal(project') <= 0 \/ IndexBalance(project') <= 0)) =>
        /\ pc' = "project"
        /\ UNCHANGED <<available_inventory, used_parts, missing_items, results,
                       group_results>>

\* C10: a project whose index part has an aggregated total <= 0 or a pool balance
\* <= 0 is skipped: the loop stays at the project level, so no group of it is
\* evaluated and no result is emitted for it, and the pool, the used keys and the
\* missing items are unchanged.
C10_SkippedProjectChangesNothing == [][SkippedLeavesNoTrace]_vars

\* the second project was skipped because a choice of the first project's group
\* had taken all of its index part
C10_Witness ==
    /\ pc = "project"
    /\ nproj = 2
    /\ Len(results) = 1
    /\ index_key_of(project) # normalize_part_no(results[1].index_part_no)
    /\ IndexTotal(project) > 0
    /\ IndexBalance(project) <= 0
    /\ index_key_of(project) \in used_parts

(***************************************************************************)
(* C11                                                                     *)
(***************************************************************************)
IndexConsumption ==
    IndexConsumedStep =>
        LET k == index_key_of(project')
        IN /\ consumption_qty' = Min(IndexTotal(project'), IndexBalance(project'))
           /\ Balance(available_inventory', k) = IndexBalance(project') - consumption_qty'
           /\ \A other \in DOMAIN available_inventory' :
                 other # k =>
                     /\ other \in DOMAIN available_inventory
                     /\ available_inventory'[other] = available_inventory[other]
           /\ k \in used_parts'

\* the result of a project reports what was consumed of its index part
ConsumptionReported ==
    (pc = "group" /\ pc' = "project") =>
        /\ results'[Len(results')].matched_quantity = consumption_qty
        /\ results'[Len(results')].index_part_no = project.index_part_no

\* C11: for every evaluated project the reported matched_quantity is
\* min(aggregated total of the index key, pool balance of the index key just
\* before the project); that step lowers the balance of the index key by exactly
\* that amount, changes no other balance and marks the index key used.
C11_IndexConsumption == [][IndexConsumption /\ ConsumptionReported]_vars

\* a project found less of its index part in the pool than the BOM holds, because
\* an earlier group had taken some of it, and reported the smaller quantity
C11_Witness ==
    /\ pc = "project"
    /\ Len(results) = 2
    /\ results[2].matched_quantity > 0
    /\ results[2].matched_quantity
           < Balance(part_quantities, normalize_part_no(results[2].index_part_no))
    /\ normalize_part_no(results[2].index_part_no) \in used_parts

(***************************************************************************)
(* C12                                                                     *)
(***************************************************************************)
MissingKeys == {missing_items[i].key : i \in 1..Len(missing_items)}

NamesKey(result, k) ==
    \E n \in 1..Len(result.missing_choices) :
        normalize_part_no(result.missing_choices[n]) = k

\* the shortfall of the group results that name key k
RECURSIVE MissingFor(_, _)
MissingFor(group_list, k) ==
    IF group_list = <<>> THEN 0
    ELSE (IF Head(group_list).missing_qty > 0 /\ NamesKey(Head(group_list), k)
          THEN Head(group_list).missing_qty ELSE 0)
         + MissingFor(Tail(group_list), k)

RECURSIVE TotalMissing(_)
TotalMissing(group_list) ==
    IF group_list = <<>> THEN 0
    ELSE Max(Head(group_list).missing_qty, 0) + TotalMissing(Tail(group_list))

RECURSIVE TotalOfItems(_)
TotalOfItems(items) ==
    IF items = <<>> THEN 0 ELSE Head(items).missing_qty + TotalOfItems(Tail(items))

MissingMergedByKey ==
    /\ \A i, j \in 1..Len(missing_items) :
          missing_items[i].key = missing_items[j].key => i = j
    /\ \A i \in 1..Len(missing_items) :
          missing_items[i].missing_qty = MissingFor(AllGroupResults, missing_items[i].key)
    /\ \A n \in 1..Len(AllGroupResults) :
          AllGroupResults[n].missing_qty > 0 =>
              \E k \in MissingKeys : NamesKey(AllGroupResults[n], k)
    /\ TotalOfItems(missing_items) = TotalMissing(AllGroupResults)

\* the description a group shows for a part: the one of the BOM, else the one of
\* its first choice with that part number that has one
SeenDescription(g, part_no) ==
    LET from_bom == DictGet(part_desc, normalize_part_no(part_no), EmptyText)
        described == {i \in 1..Len(g.choices) :
                         g.choices[i].part_no = part_no /\ g.choices[i].desc # EmptyText}
    IN IF from_bom # EmptyText THEN from_bom
       ELSE IF described = {} THEN EmptyText
       ELSE g.choices[CHOOSE i \in described : \A j \in described : i <= j].desc

ItemOf(items, k) == items[CHOOSE i \in 1..Len(items) : items[i].key = k]
HasItem(items, k) == \E i \in 1..Len(items) : items[i].key = k

\* a group result with a shortfall arrives: the item of its part keeps a
\* description it has, and takes the one seen now when it has none
FirstDescriptionKept ==
    (Len(group_results') = Len(group_results) + 1
         /\ group_results'[Len(group_results')].missing_qty > 0) =>
        \A n \in 1..Len(group_results'[Len(group_results')].missing_choices) :
            LET part_no == group_results'[Len(group_results')].missing_choices[n]
                k == normalize_part_no(part_no)
                old == IF HasItem(missing_items, k)
                       THEN ItemOf(missing_items, k).desc ELSE EmptyText
            IN /\ HasItem(missing_items', k)
               /\ ItemOf(missing_items', k).desc =
                      IF old # EmptyText THEN old ELSE SeenDescription(group', part_no)

\* C12: missing items are merged by normalized part key: there is at most one
\* item per key, its missing_qty is the sum of the missing_qty of the group
\* results (of all projects) whose missing_choices name the key, the items add up
\* to the total missing_qty of the group results, and the description of an item
\* is the first non-empty description seen for its key.
C12_MissingMergedByKey == []MissingMergedByKey /\ [][FirstDescriptionKept]_vars

\* two groups were short of the same part, spelled differently; the first showed
\* no description, the second did, and the one item holds both shortfalls
C12_Witness ==
    /\ Len(missing_items) = 1
    /\ Len(AllGroupResults) = 2
    /\ AllGroupResults[1].missing_choices = <<KeyC>>
    /\ AllGroupResults[2].missing_choices = <<LowerC>>
    /\ missing_items[1].desc = <<"c", "d">>
    /\ missing_items[1].missing_qty
           = AllGroupResults[1].missing_qty + AllGroupResults[2].missing_qty
    /\ AllGroupResults[1].missing_qty > 0
    /\ AllGroupResults[2].missing_qty > 0

(***************************************************************************)
(* C13                                                                     *)
(***************************************************************************)
\* something of key k has left the pool: as an index part or as a choice
Consumed(k) == Balance(available_inventory, k) < Balance(part_quantities, k)

EvaluatedIndexKeys ==
    {normalize_part_no(results[i].index_part_no) : i \in 1..Len(results)}

\* the keys of the parts some group result holds a nonzero allocation of
AllocatedKeys ==
    UNION {{normalize_part_no(AllGroupResults[i].matched_details[n].part_no) :
               n \in {m \in 1..Len(AllGroupResults[i].matched_details) :
                         AllGroupResults[i].matched_details[m].qty # 0}} :
              i \in 1..Len(AllGroupResults)}

\* C13: the remainder key set is (aggregated keys - used keys) + important keys,
\* the used keys being the index keys of the evaluated projects and the choice
\* keys with a nonzero allocation, which are the keys something was consumed of: a
\* key never consumed is in the remainder, and a key is out of it only if it was
\* consumed and is not important.
C13_RemainderKeys ==
    pc = "finished" =>
        /\ used_parts = EvaluatedIndexKeys \cup AllocatedKeys
        /\ used_parts = {k \in DOMAIN part_quantities : Consumed(k)}
        /\ remainder_keys =
               (DOMAIN part_quantities \ used_parts) \cup important_part_numbers
        /\ \A k \in DOMAIN part_quantities :
              k \in remainder_keys <=> (~ Consumed(k) \/ k \in important_part_numbers)

\* of two consumed parts the important one is in the remainder and the other is
\* not, next to a part nothing was consumed of
C13_Witness ==
    /\ pc = "finished"
    /\ \E k \in DOMAIN part_quantities :
          Consumed(k) /\ k \in important_part_numbers /\ k \in remainder_keys
    /\ \E k \in DOMAIN part_quantities : Consumed(k) /\ k \notin remainder_keys
    /\ \E k \in DOMAIN part_quantities :
          ~ Consumed(k) /\ k \notin important_part_numbers /\ k \in remainder_keys

FirstRunAggregated == sheet_pc = "aggregated" /\ run = 1

DirectoryEntries == load_invalid_entries(invalid_part_db.rows)

\* the key a row counts under: the replacement key of its part key when the
\* directory gives one, its own part key otherwise
EffectiveKey(k) ==
    IF k \in DOMAIN DirectoryEntries /\ DirectoryEntries[k].replacement_no # EmptyText
    THEN normalize_part_no(DirectoryEntries[k].replacement_no)
    ELSE k

\* the worksheets with a part column, and the key of the part cell of a row
Resolvable == {i \in 1..Len(loaded_worksheets) : _identify_part_column(loaded_worksheets[i]) # NoColumn}

RowKey(i, n) ==
    normalize_part_no(PartText(loaded_worksheets[i].rows[n], _identify_part_column(loaded_worksheets[i])))

\* the quantities of the first n rows of worksheet i that count under k
RECURSIVE RowSum(_, _, _)
RowSum(k, i, n) ==
    IF n = 0 THEN 0
    ELSE RowSum(k, i, n - 1)
         + (IF EffectiveKey(RowKey(i, n)) = k
            THEN row_quantity(worksheets[i].rows[n], identify_columns(worksheets[i])) ELSE 0)

RECURSIVE SheetSum(_, _)
SheetSum(k, i) ==
    IF i = 0 THEN 0
    ELSE SheetSum(k, i - 1)
         + (IF i \in Resolvable THEN RowSum(k, i, Len(loaded_worksheets[i].rows)) ELSE 0)

Credited(k) == IF k \in DOMAIN part_quantities THEN part_quantities[k] ELSE 0

SheetKeys ==
    UNION {{EffectiveKey(RowKey(i, n)) : n \in 1..Len(loaded_worksheets[i].rows)} : i \in Resolvable}
        \cup DOMAIN part_quantities

CurrentRow == worksheet.rows[row_idx]

CurrentMatch == MatchOf(CurrentRow, columns.part, invalid_entries)

AtMatchedRow == InReplaceLoop /\ Matches(CurrentRow, columns.part, invalid_entries)

\* a matched row has just been taken for already processed
FoundMarkedRow == error = "AttributeError" /\ sheet_idx <= Len(worksheets)

\* C15: aggregation conserves quantity: for every part key, the quantities of
\* the rows whose part cell normalizes to it add up to the total credited to it,
\* or to its replacement key when the replacement stage substituted it; no row is
\* dropped or counted twice, rows flagged by the replacement stage included.
C15_AggregationConservesQuantity ==
    FirstRunAggregated =>
        \A k \in SheetKeys : Credited(k) = SheetSum(k, Len(loaded_worksheets))

QuantityObtained(row) ==
    HasQuantityCell(row, columns) /\ _parse_quantity_value(row[columns.qty].value).ok

CountsRow ==
    /\ InExtractLoop
    /\ _resolve_row_part(CurrentRow, columns.part).found
    /\ row_idx' = row_idx + 1

\* C16: whenever the quantity of a row cannot be obtained as a number, the
\* aggregation does not raise, logs a diagnostic for the row and counts 0 for it;
\* the defaults 0 and 1 are never mixed.
C16_UnparsableQuantityCountsZero ==
    [][(CountsRow /\ ~ QuantityObtained(CurrentRow)) =>
            /\ quantity_debug' = Append(quantity_debug, row_idx)
            /\ LET k == _resolve_row_part(CurrentRow, columns.part).key
               IN k \in DOMAIN part_quantities' /\ part_quantities'[k] = Credited(k)]_vars

HoldsReplacement(row, replacement_no) ==
    /\ replacement_no # EmptyText
    /\ \E c \in (1..Len(row)) \ {columns.part} :
          /\ ~ IsFalsy(row[c].value)
          /\ normalize_part_no(StrOf(row[c].value)) = normalize_part_no(replacement_no)

PartFlagged(row) == row[columns.part].black

OtherUnflaggedValue(row) ==
    \E c \in (1..Len(row)) \ {columns.part} : ~ IsBlank(row[c].value) /\ ~ row[c].black

\* the matched row the loop is at was taken for already processed
TakenForProcessed == error' = "AttributeError"

ClassifiedAs(rule(_, _)) ==
    AtMatchedRow => (TakenForProcessed <=> rule(CurrentRow, CurrentMatch.replacement_no))

ProcessedAsClaimed(row, replacement_no) ==
    \/ HoldsReplacement(row, replacement_no)
    \/ PartFlagged(row) /\ ~ OtherUnflaggedValue(row)
    \/ PartFlagged(row) /\ replacement_no = EmptyText

ProcessedByAppendedValue(row, replacement_no) ==
    \/ HoldsReplacement(row, replacement_no)
    \/ PartFlagged(row) /\ OtherUnflaggedValue(row)
    \/ PartFlagged(row) /\ replacement_no = EmptyText

\* C17 as claimed: a matched row is classified as already processed iff (a) a
\* cell other than the part cell holds the replacement part, up to normalization,
\* or (b) the part cell is black and no other cell carries an unflagged value, or
\* (c) the part cell is black and the directory entry has no replacement.
C17_ProcessedAsClaimed == [][ClassifiedAs(ProcessedAsClaimed)]_vars

\* C17: a matched row is classified as already processed iff (a) a cell other
\* than the part cell holds the replacement part, up to normalization, or (b) the
\* part cell is black and some other cell carries a value that is not black, or
\* (c) the part cell is black and the directory entry has no replacement.
C17_ProcessedByAppendedValue == [][ClassifiedAs(ProcessedByAppendedValue)]_vars

\* a black part cell beside a value that is not black, the replacement not in the
\* row: taken for already processed
C17_Witness ==
    /\ FoundMarkedRow
    /\ PartFlagged(CurrentRow)
    /\ OtherUnflaggedValue(CurrentRow)
    /\ CurrentMatch.replacement_no # EmptyText
    /\ ~ HoldsReplacement(CurrentRow, CurrentMatch.replacement_no)

\* C18: for a matched row classified as already processed the replacement stage
\* counts it as found and as previously marked, leaves the replaced counter and
\* every cell as they are, does not process the row again and goes on with the
\* next row.
C18_MarkedRowOnlyCounted ==
    [][(AtMatchedRow /\ _row_already_replaced(CurrentRow, columns.part, CurrentMatch.replacement_no)) =>
            /\ summary'.total_invalid_found = summary.total_invalid_found + 1
            /\ summary'.total_replaced = summary.total_replaced
            /\ summary'.records = summary.records
            /\ worksheets' = worksheets
            /\ sheet_pc' = "replace"
            /\ row_idx' = row_idx + 1]_vars

\* C19: the replacement stage run again on a worksheet it has processed changes
\* no cell and replaces nothing, and the second run aggregates the same quantity
\* per part key as the first.
C19_ReplacementIdempotent ==
    run = 2 =>
        /\ error = NoError
        /\ worksheets = loaded_worksheets
        /\ summary.total_replaced = 0
        /\ sheet_pc = "aggregated" => part_quantities = first_quantities

\* C20: a missing invalid-part directory does not fail the invocation: the
\* replacement stage runs on an empty directory and replaces nothing, and the
\* aggregation still runs.
C20_MissingDirectoryDegrades ==
    ~ invalid_part_db.exists =>
        /\ error = NoError
        /\ sheet_pc # "raised"
        /\ summary.total_replaced = 0
        /\ worksheets = loaded_worksheets

\* no column of the worksheet holds a text
Unresolvable(ws) == \A c \in 1..max_column(ws) : ColumnTexts(ws, c) = {}

AtUnresolvableSheet == (AtReplaceSheet \/ AtExtractSheet) /\ Unresolvable(worksheet)

\* every worksheet has its line in the trace of both stages
VisitedBy(stage) ==
    \A i \in 1..Len(worksheets) :
        \E n \in 1..Len(debug_logs) :
            /\ debug_logs[n].stage = stage /\ debug_logs[n].sheet = i /\ debug_logs[n].row = 0
            /\ debug_logs[n].part = _identify_part_column(worksheets[i])

\* C21: when the part column of a worksheet cannot be resolved, the replacement
\* stage and the aggregator skip its rows, append a line to the debug trace,
\* raise nothing and go on with the other worksheets.
C21_UnresolvedSheetSkipped ==
    /\ [][AtUnresolvableSheet =>
            /\ worksheets' = worksheets
            /\ summary' = summary
            /\ aggregation' = aggregation
            /\ quantity_debug' = quantity_debug
            /\ debug_logs' = Append(debug_logs,
                                    ColumnLine(IF AtReplaceSheet THEN "replace" ELSE "extract",
                                               sheet_idx, NoColumn))
            /\ error' = NoError
            /\ sheet_pc' = sheet_pc
            /\ sheet_idx' = sheet_idx + 1]_vars
    /\ [](sheet_pc = "aggregated" => VisitedBy("replace") /\ VisitedBy("extract"))

\* a workbook whose first worksheet has no part column and whose second has a
\* replaced row that is counted
C21_Witness ==
    /\ FirstRunAggregated
    /\ Len(worksheets) = 2
    /\ Unresolvable(worksheets[1])
    /\ summary.total_replaced = 1
    /\ part_quantities # <<>>

\* the columns whose header cell holds a quantity keyword
KeywordColumns(ws) ==
    {c \in 1..max_column(ws) :
        /\ ws.header[c].kind = "text"
        /\ \E keyword \in QuantityKeywords : IsSubstring(keyword, str_lower(ws.header[c].text))}

QuantityCandidates(ws) ==
    IF KeywordColumns(ws) # {} THEN KeywordColumns(ws) ELSE 3..max_column(ws)

\* the candidates that score: a value of theirs parses
Scoring(ws) == {c \in QuantityCandidates(ws) : NumericCount(ws, c) > 0}

\* c is ranked no later than d: more parsed values (all of them integers
\* here), then fewer failures, then the lower index
RankedNoLater(ws, c, d) ==
    \/ NumericCount(ws, c) > NumericCount(ws, d)
    \/ NumericCount(ws, c) = NumericCount(ws, d) /\ FailureCount(ws, c) < FailureCount(ws, d)
    \/ NumericCount(ws, c) = NumericCount(ws, d) /\ FailureCount(ws, c) = FailureCount(ws, d) /\ c <= d

\* C22: _identify_quantity_column keeps to the columns with a quantity keyword
\* in the header when there is one and to the columns past the first two
\* otherwise, selects the candidate with the most integer parses, then the most
\* parses, then the fewest failures, then the lowest index, and returns a
\* fallback column when no candidate scores.
C22_QuantityColumnSelected ==
    (sheet_pc = "extract" /\ run = 1) =>
        IF Scoring(worksheet) # {}
        THEN /\ columns.qty \in Scoring(worksheet)
             /\ \A d \in Scoring(worksheet) : RankedNoLater(worksheet, columns.qty, d)
        ELSE columns.qty # NoColumn

(***************************************************************************)
(* C23                                                                     *)
(***************************************************************************)
\* the keywords of the list the invocation was given
KeywordsGiven ==
    IF keyword_file.exists THEN read_keywords(keyword_file.lines) ELSE <<>>

\* keyword and text, both stripped and lowered, one contained in the other
TextMatches(keyword, text) ==
    LET k == _prepare_value(keyword)
        t == _prepare_value(text)
    IN /\ k # <<>>
       /\ t # <<>>
       /\ (IsSubstring(k, t) \/ IsSubstring(t, k))

\* the aggregated parts whose display text, key or description matches
MatchingKeys(keyword) ==
    {k \in DOMAIN part_quantities :
        \/ TextMatches(keyword, DictGet(part_display, k, k))
        \/ TextMatches(keyword, k)
        \/ (k \in DOMAIN part_desc /\ TextMatches(keyword, part_desc[k]))}

RECURSIVE AggregatedTotal(_)
AggregatedTotal(keys) ==
    IF keys = {} THEN 0
    ELSE LET k == CHOOSE x \in keys : TRUE
         IN part_quantities[k] + AggregatedTotal(keys \ {k})

KeywordTotal(keyword) == AggregatedTotal(MatchingKeys(keyword))
KeywordCounts(keyword) == KeywordTotal(keyword) # 0

\* C23: the scan adds, for each keyword, the full aggregated quantity of every
\* aggregated part whose display text, key or description matches it, whatever
\* the binding evaluation consumed of the part; total_quantity is that sum; every
\* matching key is flagged important; a hit is emitted, in keyword order, exactly
\* for the keywords whose total is not zero.
C23_ScanCountsAggregated ==
    pc = "finished" =>
        LET expected == SelectSeq(KeywordsGiven, KeywordCounts)
        IN /\ Len(important_hits) = Len(expected)
           /\ \A i \in 1..Len(expected) :
                 /\ important_hits[i].keyword = expected[i]
                 /\ important_hits[i].total_quantity = KeywordTotal(expected[i])
           /\ important_part_numbers =
                  UNION {MatchingKeys(KeywordsGiven[i]) : i \in 1..Len(KeywordsGiven)}

\* a hit counts a part the evaluation consumed, and a keyword whose matching
\* parts add up to nothing gives no hit while its parts are flagged
C23_Witness ==
    /\ pc = "finished"
    /\ \E i \in 1..Len(important_hits) :
          \E k \in MatchingKeys(important_hits[i].keyword) :
              /\ Consumed(k)
              /\ important_hits[i].total_quantity >= part_quantities[k]
    /\ \E i \in 1..Len(KeywordsGiven) :
          /\ MatchingKeys(KeywordsGiven[i]) # {}
          /\ ~ KeywordCounts(KeywordsGiven[i])
          /\ MatchingKeys(KeywordsGiven[i]) \subseteq important_part_numbers

(***************************************************************************)
(* C24                                                                     *)
(***************************************************************************)
\* C24: normalize_part_no and normalize_text are idempotent: applied to their own
\* result they return it unchanged.
C24_NormalizationIdempotent ==
    text_pc \in {"twice", "matched"} => normalized_twice = normalized_once

\* both functions changed the text they were given, the second by a conversion
C24_Witness ==
    /\ text_pc = "twice"
    /\ normalized_once.part_no # text_value
    /\ Len(normalized_once.part_no) < Len(text_value)
    /\ normalized_once.text # _prepare_value(text_value)
    /\ normalized_once.text # <<>>

(***************************************************************************)
(* C25                                                                     *)
(***************************************************************************)
\* C25: _variants_match(keyword variants, value variants) holds iff some variant
\* of the keyword is a substring of some variant of the value or the other way
\* round, and it gives the same with its arguments exchanged.
C25_VariantsMatchSymmetric ==
    text_pc = "matched" =>
        /\ variants_matched.forth <=>
              \E a \in KeywordVariants, b \in ValueVariants :
                  IsSubstring(a, b) \/ IsSubstring(b, a)
        /\ variants_matched.forth = variants_matched.back

\* a keyword matched a longer value only through a converted variant, and a
\* keyword that is longer than the value it matched
C25_Witness ==
    /\ text_pc = "matched"
    /\ variants_matched.forth
    /\ \/ /\ Len(_prepare_value(text_value)) < Len(_prepare_value(text_other))
          /\ ~ IsSubstring(_prepare_value(text_value), _prepare_value(text_other))
       \/ /\ Len(_prepare_value(text_value)) > Len(_prepare_value(text_other))
          /\ ~ IsSubstring(_prepare_value(text_other), _prepare_value(text_value))

(***************************************************************************)
(* C27                                                                     *)
(***************************************************************************)
RECURSIVE IndexConsumedOf(_, _)
IndexConsumedOf(project_results, k) ==
    IF project_results = <<>> THEN 0
    ELSE (IF normalize_part_no(Head(project_results).index_part_no) = k
          THEN Head(project_results).matched_quantity ELSE 0)
         + IndexConsumedOf(Tail(project_results), k)

RECURSIVE MatchedOf(_, _)
MatchedOf(details, k) ==
    IF details = <<>> THEN 0
    ELSE (IF normalize_part_no(Head(details).part_no) = k THEN Head(details).qty ELSE 0)
         + MatchedOf(Tail(details), k)

RECURSIVE ChoiceConsumedOf(_, _)
ChoiceConsumedOf(group_result_list, k) ==
    IF group_result_list = <<>> THEN 0
    ELSE MatchedOf(Head(group_result_list).matched_details, k)
         + ChoiceConsumedOf(Tail(group_result_list), k)

\* what this invocation has consumed of key k so far: as index part of the
\* projects evaluated and of the project under evaluation, and as matched choice
\* of the groups evaluated and of the group under allocation
ConsumedSoFar(k) ==
    IndexConsumedOf(results, k)
        + (IF ProjectOpen /\ index_key_of(project) = k THEN consumption_qty ELSE 0)
        + ChoiceConsumedOf(AllGroupResults, k)
        + MatchedOf(matched_details, k)

PoolKeys == DOMAIN part_quantities \cup DOMAIN available_inventory

PoolStartsFresh ==
    (pc = "project" /\ nproj = 0) => available_inventory = part_quantities

PoolLedger ==
    \A k \in PoolKeys :
        /\ Balance(available_inventory, k) <= Balance(part_quantities, k)
        /\ Balance(part_quantities, k) - Balance(available_inventory, k) = ConsumedSoFar(k)

PoolStep ==
    /\ part_quantities' = part_quantities
    /\ IF run' # run
       THEN available_inventory' = part_quantities
       ELSE \A k \in PoolKeys :
               Balance(available_inventory', k) <= Balance(available_inventory, k)

\* C27 as claimed: each invocation starts with a pool equal to the aggregated
\* quantities, which the evaluator never modifies; for every key k,
\* 0 <= pool[k] <= aggregated[k], and aggregated[k] - pool[k] is what has been
\* consumed of k so far as index part and as matched choice; no balance increases.
C27_PoolWithinZeroAndAggregated ==
    /\ [](PoolStartsFresh /\ PoolLedger /\ C1_PoolNonNegative)
    /\ [][PoolStep]_vars

\* C27 amended: as claimed, with min(aggregated[k], 0) <= pool[k] in place of
\* 0 <= pool[k].
C27_PoolAccounting ==
    /\ [](PoolStartsFresh /\ PoolLedger /\ C1_PoolNotBelowStart)
    /\ [][PoolStep]_vars

\* in the second invocation one part has been consumed as an index part and
\* another as a choice, next to a part of negative aggregated quantity
C27_Witness ==
    /\ run = 2
    /\ \E k \in PoolKeys :
          IndexConsumedOf(results, k) > 0 /\ Balance(available_inventory, k) = 0
    /\ \E k \in PoolKeys : ChoiceConsumedOf(AllGroupResults, k) > 0
    /\ \E k \in PoolKeys : Balance(available_inventory, k) < 0

(***************************************************************************)
(* C28                                                                     *)
(***************************************************************************)
\* a counter of the summary, 0 when the summary holds no such counter
SummaryCount(name) == IF name \in DOMAIN summary THEN summary[name] ELSE 0

RecordsWithReplacement ==
    {i \in 1..Len(summary.records) : summary.records[i].replacement_part_no # EmptyText}

\* a matched row that is not already processed: one record more, and one
\* replacement more only when the directory gives one
RecordPerProcessedRow ==
    (AtMatchedRow
        /\ ~ _row_already_replaced(CurrentRow, columns.part, CurrentMatch.replacement_no)) =>
        /\ Len(summary'.records) = Len(summary.records) + 1
        /\ summary'.total_replaced =
               summary.total_replaced
                   + (IF CurrentMatch.replacement_no # EmptyText THEN 1 ELSE 0)

ReplacedIsRecordsWithReplacement ==
    summary.total_replaced = Cardinality(RecordsWithReplacement)

FoundIsMarkedPlusRecords ==
    summary.total_invalid_found =
        SummaryCount("total_invalid_previously_marked") + Len(summary.records)

\* C28: every matched row that is not already processed appends exactly one
\* record, with or without a replacement part, and increments total_replaced only
\* with one; hence total_invalid_found = total_invalid_previously_marked + number
\* of records, and total_replaced = number of records with a replacement part.
C28_FoundIsMarkedPlusRecords ==
    /\ [][RecordPerProcessedRow]_vars
    /\ [](ReplacedIsRecordsWithReplacement /\ FoundIsMarkedPlusRecords)

(***************************************************************************)
(* C26                                                                     *)
(***************************************************************************)
\* _evaluate_binding_requirements on a list of projects without groups, run to
\* its end in one go
RECURSIVE evaluate_synchronously(_, _, _)
evaluate_synchronously(project_list, pool, project_results) ==
    IF project_list = <<>> THEN project_results
    ELSE LET p == Head(project_list)
             index_key == index_key_of(p)
             project_qty == DictGet(AppQuantities, index_key, 0)
             available_index_qty == DictGet(pool, index_key, 0)
             qty == compute_consumption_qty(project_qty, available_index_qty)
         IN IF skip_project(project_qty, available_index_qty)
            THEN evaluate_synchronously(Tail(project_list), pool, project_results)
            ELSE evaluate_synchronously(
                     Tail(project_list),
                     DictPut(pool, index_key, deplete(available_index_qty, qty)),
                     append_result(project_results, ProjectResult(p, qty, <<>>)))

HasResult(t) == threads[t].outcome \in {"returned", "save_error"}

LiveThreads == {t \in 1..Len(threads) : threads[t].pc # "ended"}

OneExecutionAtATime ==
    /\ Cardinality(LiveThreads) <= 1
    /\ LiveThreads # {} => execution_lock

ThreadStartsWithLock ==
    threads' # threads /\ Len(threads') # Len(threads) =>
        /\ ~ execution_lock
        /\ execution_lock'
        /\ Len(threads') = Len(threads) + 1

RequestRejected ==
    (execution_lock /\ last_dialog' = "busy" /\ last_dialog # "busy") =>
        UNCHANGED <<threads, lock_vars, after_queue>>

\* C29: at most one execution runs at a time: a thread is started only in a step
\* that acquires the free lock, the lock is held while a thread runs, and a
\* request made while the lock is held starts no thread and leaves the running
\* one, the lock and the pending callbacks as they are.
C29_OneExecutionAtATime ==
    /\ []OneExecutionAtATime
    /\ [][ThreadStartsWithLock /\ RequestRejected]_vars

\* a request has been rejected while a thread was evaluating, and a second
\* execution was started after the first had ended
C29_Witness ==
    /\ last_dialog = "busy"
    /\ Len(threads) = MaxExecutions
    /\ threads[1].pc = "ended"
    /\ threads[MaxExecutions].pc = "evaluate"

(***************************************************************************)
(* C30                                                                     *)
(***************************************************************************)
Released == ~ execution_lock /\ execute_button = "normal"

\* C30: every started execution eventually releases the lock and re-enables the
\* execute button, whether the engine returns, raises a save error or raises
\* anything else; with the lock released a request is accepted again.
C30_ExecutionEventuallyReleases ==
    /\ \A outcome \in {"returned", "save_error", "raised"} :
          (\E t \in LiveThreads : threads[t].outcome = outcome) ~> Released
    /\ execution_lock ~> Released
    /\ [](Released /\ selected_file /\ Len(threads) < MaxExecutions
              => ENABLED ExecuteStarts)

\* a second execution runs after a first one that ended in a save error
C30_Witness ==
    /\ Len(threads) = MaxExecutions
    /\ threads[1].outcome = "save_error"
    /\ threads[1].pc = "ended"
    /\ threads[MaxExecutions].outcome = "raised"
    /\ Released

====
